---------------------------- MODULE Spec2Model ----------------------------
(***************************************************************************)
(* Portfolio statement extraction of src/app.py: the value normalizer      *)
(* (_clean), the statement selector (_extract_date_and_account,            *)
(* _most_recent_files), the Schwab and Fidelity document scans             *)
(* (parse_schwab_pdf, parse_fidelity_pdf), the multi-broker scan           *)
(* (scan_data_folders, load_file, active_holdings, index) and the          *)
(* aggregator (calculate_summary); and the job scan of src/job_agent       *)
(* (run_scan with its filter, dedup store and digest).                     *)
(*                                                                         *)
(* Text is modelled as sequences of one-character strings, so that the     *)
(* regular expressions of the source are matched character by character.   *)
(* Amounts are integers in units of 10^-FracDigits.                        *)
(***************************************************************************)
EXTENDS Integers, Sequences, FiniteSets, TLC

VARIABLES
    \* --- statement selector (one broker folder) ---
    folder,          \* os.listdir(folder): the directory listing, in the order the OS returns it
    sel_pc,          \* "idle", or "selected" once _most_recent_files(folder) has returned
    files_to_load    \* the list returned by _most_recent_files(folder)

VARIABLES
    \* --- parse_schwab_pdf (one document) ---
    sch_path,        \* path of the statement being parsed
    sch_pc,          \* "scanning" while pages are read, "done" once holdings is returned
    sch_page,        \* number of pages of pdf.pages entered so far
    sch_read,        \* the lines read so far, over all pages, in order
    in_positions,    \* SectionContext.in_positions
    current_type,    \* SectionContext.current_asset_type
    cash_val,        \* the cash accumulator
    holdings         \* the Holdings emitted so far

VARIABLES
    \* --- index(): active_holdings(), scan_data_folders(), calculate_summary() ---
    dirs,            \* broker -> os.listdir of its folder: sequence of [name, body]
    PDF_SUPPORT,     \* whether pdfplumber could be imported
    SAMPLE_HOLDINGS, \* the module-level fallback list
    scan_pc,         \* "idle", "folder" (at the head of the broker loop), "files" (in the file loop)
    scan_broker,     \* position of the broker loop in BROKER_FOLDERS
    scan_files,      \* files_to_load of the current broker
    scan_idx,        \* position of the file loop in files_to_load
    scan_holdings,   \* the list holdings of scan_data_folders
    scan_errors,     \* the files whose ERROR line was printed, in order
    runs,            \* index() calls completed since the folders last changed (2 = two or more)
    prev_run,        \* what the call before the last one produced
    last_run         \* what the last call produced: [holdings, summary]

VARIABLES
    \* --- parse_fidelity_pdf (one document) ---
    fid_lines,       \* full_text.splitlines(): the lines of the statement
    fid_pc,          \* "open", "scanning" in the line loop, "done" once holdings is returned
    fid_i,           \* number of the line the loop is at, counted from 1
    fid_label,       \* the account label taken from the document text
    current_section, \* the asset type of the section the scan is in
    fid_holdings     \* the Holdings emitted so far

VARIABLES
    \* --- _clean (one call) ---
    clean_val,       \* the argument val: a text, or NONE
    clean_src,       \* where val comes from: the amount it renders, if it renders one
    clean_pc,        \* "call" before the call, "returned" after it
    clean_ret        \* the float returned

VARIABLES
    \* --- calculate_summary (one call) ---
    sum_holdings,    \* the list holdings the function is called on
    sum_pc,          \* "call" before the call, "returned" after it
    summary          \* the summary returned

VARIABLES
    \* --- _extract_date_and_account (one call) ---
    ext_fname,       \* the argument fname
    ext_pc,          \* "call" before the call, "returned" after it
    ext_ret          \* the pair returned: [date, acct]

VARIABLES
    \* --- job scan: run_scan calls on one dedup store ---
    seen_jobs,       \* the job ids in table seen_jobs
    job_pc,          \* "idle", "checked" (new_jobs is computed), "marked" (store and results.json written)
    dry_run,         \* argument dry_run of the scan
    total_fetched,   \* len(all_jobs)
    filtered,        \* the list filtered
    new_jobs,        \* the list new_jobs
    job_errors,      \* the list errors
    results_json,    \* the content of results.json
    outbox,          \* the digests sent, each one the list of jobs it holds
    reported,        \* job id -> number of scans (dry runs aside) that had it in new_jobs
    job_result,      \* what the last scan returned
    scans            \* number of scans started

selVars == <<folder, sel_pc, files_to_load>>

fidVars == <<fid_lines, fid_pc, fid_i, fid_label, current_section, fid_holdings>>

cleanVars == <<clean_val, clean_src, clean_pc, clean_ret>>

scanVars == <<dirs, PDF_SUPPORT, SAMPLE_HOLDINGS, scan_pc, scan_broker, scan_files,
              scan_idx, scan_holdings, scan_errors, runs, prev_run, last_run>>

schVars == <<sch_path, sch_pc, sch_page, sch_read, in_positions, current_type,
             cash_val, holdings>>

sumVars == <<sum_holdings, sum_pc, summary>>

extVars == <<ext_fname, ext_pc, ext_ret>>

jobVars == <<seen_jobs, job_pc, dry_run, total_fetched, filtered, new_jobs, job_errors, results_json, outbox, reported, job_result, scans>>

\* the variables an action of one part leaves alone
notSel == <<schVars, scanVars, fidVars, cleanVars, sumVars, extVars, jobVars>>

notSch == <<selVars, scanVars, fidVars, cleanVars, sumVars, extVars, jobVars>>

notScan == <<selVars, schVars, fidVars, cleanVars, sumVars, extVars, jobVars>>

notFid == <<selVars, schVars, scanVars, cleanVars, sumVars, extVars, jobVars>>

notClean == <<selVars, schVars, scanVars, fidVars, sumVars, extVars, jobVars>>

notSum == <<schVars, scanVars, fidVars, cleanVars, selVars, extVars, jobVars>>

notExt == <<schVars, scanVars, fidVars, cleanVars, sumVars, selVars, jobVars>>

notJob == <<schVars, scanVars, fidVars, cleanVars, sumVars, extVars, selVars>>

vars == <<folder, sel_pc, files_to_load,
          sch_path, sch_pc, sch_page, sch_read, in_positions, current_type,
          cash_val, holdings,
          dirs, PDF_SUPPORT, SAMPLE_HOLDINGS, scan_pc, scan_broker, scan_files,
          scan_idx, scan_holdings, scan_errors, runs, prev_run, last_run,
          fid_lines, fid_pc, fid_i, fid_label, current_section, fid_holdings,
          clean_val, clean_src, clean_pc, clean_ret,
          sum_holdings, sum_pc, summary,
          ext_fname, ext_pc, ext_ret,
          seen_jobs, job_pc, dry_run, total_fetched, filtered, new_jobs, job_errors, results_json, outbox, reported, job_result, scans>>

-----------------------------------------------------------------------------
(* Characters.  Alphabet lists the characters used by the model in code-   *)
(* point order (Python compares str by code point).                        *)

Alphabet ==
    <<" ", "$", "%", "&", "(", ")", ",", "-", ".", "/",
      "0", "1", "2", "3", "4", "5", "6", "7", "8", "9",
      "A", "B", "C", "D", "E", "F", "G", "H", "I", "J", "K", "L", "M",
      "N", "O", "P", "Q", "R", "S", "T", "U", "V", "W", "X", "Y", "Z",
      "_",
      "a", "b", "c", "d", "e", "f", "g", "h", "i", "j", "k", "l", "m",
      "n", "o", "p", "q", "r", "s", "t", "u", "v", "w", "x", "y", "z">>

Chars == {Alphabet[i] : i \in 1..Len(Alphabet)}

Ord == [c \in Chars |-> CHOOSE i \in 1..Len(Alphabet) : Alphabet[i] = c]

Digits == {"0", "1", "2", "3", "4", "5", "6", "7", "8", "9"}

Upper == {"A", "B", "C", "D", "E", "F", "G", "H", "I", "J", "K", "L", "M",
          "N", "O", "P", "Q", "R", "S", "T", "U", "V", "W", "X", "Y", "Z"}

LowerCh == {"a", "b", "c", "d", "e", "f", "g", "h", "i", "j", "k", "l", "m",
            "n", "o", "p", "q", "r", "s", "t", "u", "v", "w", "x", "y", "z"}

\* regex \d and \w on the model's (ASCII) alphabet
IsDigit(c) == c \in Digits

IsWord(c) == c \in Digits \cup Upper \cup LowerCh \cup {"_"}

\* str.lower() on one character: upper-case letters are 26 places below
\* their lower-case letter plus "_" in Alphabet
LowerOf(c) == IF c \in Upper THEN Alphabet[Ord[c] + 27] ELSE c

Lower(s) == [i \in 1..Len(s) |-> LowerOf(s[i])]

\* Python's s < t on str: lexicographic by code point
RECURSIVE StrLt(_, _)
StrLt(s, t) ==
    IF t = <<>> THEN FALSE
    ELSE IF s = <<>> THEN TRUE
    ELSE IF s[1] # t[1] THEN Ord[s[1]] < Ord[t[1]]
    ELSE StrLt(Tail(s), Tail(t))

StrGt(s, t) == StrLt(t, s)

\* s[i..j] as Python's s[i-1:j]
Slice(s, i, j) == SubSeq(s, i, j)

\* s.startswith(p)
StartsWith(s, p) == Len(s) >= Len(p) /\ SubSeq(s, 1, Len(p)) = p

\* all characters of s[i..j] are digits
AllDigits(s, i, j) == \A k \in i..j : k \in 1..Len(s) /\ IsDigit(s[k])

\* s[i] = c, false outside the string
At(s, i, c) == i \in 1..Len(s) /\ s[i] = c


-----------------------------------------------------------------------------
(* File names of one broker folder.                                        *)

\* STMT_2025-06-30_111.PDF
F_STMT_JUN_111 ==
    <<"S","T","M","T","_","2","0","2","5","-","0","6","-","3","0","_","1","1","1",".","P","D","F">>
\* STMT_2025-09-30_111.PDF
F_STMT_SEP_111 ==
    <<"S","T","M","T","_","2","0","2","5","-","0","9","-","3","0","_","1","1","1",".","P","D","F">>
\* Copy_2025-09-30_111.pdf
F_COPY_SEP_111 ==
    <<"C","o","p","y","_","2","0","2","5","-","0","9","-","3","0","_","1","1","1",".","p","d","f">>
\* STMT_2025-09-30_582.PDF
F_STMT_SEP_582 ==
    <<"S","T","M","T","_","2","0","2","5","-","0","9","-","3","0","_","5","8","2",".","P","D","F">>
\* Q 12_31_2025.pdf
F_MS_DEC ==
    <<"Q"," ","1","2","_","3","1","_","2","0","2","5",".","p","d","f">>
\* Q 09_30_2025.pdf
F_MS_SEP ==
    <<"Q"," ","0","9","_","3","0","_","2","0","2","5",".","p","d","f">>
\* Statement12312025.pdf
F_FID_DEC ==
    <<"S","t","a","t","e","m","e","n","t","1","2","3","1","2","0","2","5",".","p","d","f">>
\* Statement12312025-0.pdf
F_FID_DEC_0 ==
    <<"S","t","a","t","e","m","e","n","t","1","2","3","1","2","0","2","5","-","0",".","p","d","f">>
\* Statement12312025-2.pdf
F_FID_DEC_2 ==
    <<"S","t","a","t","e","m","e","n","t","1","2","3","1","2","0","2","5","-","2",".","p","d","f">>
\* Statement06302025-2.pdf
F_FID_JUN_2 ==
    <<"S","t","a","t","e","m","e","n","t","0","6","3","0","2","0","2","5","-","2",".","p","d","f">>
\* Report12312025.pdf
F_FID_DEC_B ==
    <<"R","e","p","o","r","t","1","2","3","1","2","0","2","5",".","p","d","f">>
\* notes.pdf
F_NOTES ==
    <<"n","o","t","e","s",".","p","d","f">>
\* holdings.csv
F_CSV ==
    <<"h","o","l","d","i","n","g","s",".","c","s","v">>
\* .STMT_2025-12-31_111.PDF
F_HIDDEN ==
    <<".","S","T","M","T","_","2","0","2","5","-","1","2","-","3","1","_","1","1","1",".","P","D","F">>
\* readme.txt
F_README ==
    <<"r","e","a","d","m","e",".","t","x","t">>

FileNames ==
    {F_STMT_JUN_111, F_STMT_SEP_111, F_COPY_SEP_111, F_STMT_SEP_582,
     F_MS_DEC, F_MS_SEP,
     F_FID_DEC, F_FID_DEC_0, F_FID_DEC_2, F_FID_JUN_2, F_FID_DEC_B,
     F_NOTES, F_CSV, F_HIDDEN, F_README}

\* most files one broker folder holds
MaxFiles == 3

-----------------------------------------------------------------------------
(* _extract_date_and_account: the three file-name conventions and the      *)
(* fallback.  re.search returns the leftmost match.                        *)

\* end of the longest run of \w characters starting at s[i] (i-1 when s[i] is none)
RECURSIVE WordRunEnd(_, _)
WordRunEnd(s, i) ==
    IF i \in 1..Len(s) /\ IsWord(s[i]) THEN WordRunEnd(s, i + 1) ELSE i - 1

\* end of the longest run of \d characters starting at s[i]
RECURSIVE DigitRunEnd(_, _)
DigitRunEnd(s, i) ==
    IF i \in 1..Len(s) /\ IsDigit(s[i]) THEN DigitRunEnd(s, i + 1) ELSE i - 1

\* r'(\d{4}-\d{2}-\d{2})_(\w+)\.' matches at position i.  \w+ is greedy and
\* "." is not a \w character, so the token is the whole \w run and a "."
\* has to follow it.
MatchIsoAt(s, i) ==
    /\ AllDigits(s, i, i + 3) /\ At(s, i + 4, "-")
    /\ AllDigits(s, i + 5, i + 6) /\ At(s, i + 7, "-")
    /\ AllDigits(s, i + 8, i + 9) /\ At(s, i + 10, "_")
    /\ WordRunEnd(s, i + 11) >= i + 11
    /\ At(s, WordRunEnd(s, i + 11) + 1, ".")

\* r'(\d{2})_(\d{2})_(\d{4})\.' matches at position i
MatchUsAt(s, i) ==
    /\ AllDigits(s, i, i + 1) /\ At(s, i + 2, "_")
    /\ AllDigits(s, i + 3, i + 4) /\ At(s, i + 5, "_")
    /\ AllDigits(s, i + 6, i + 9) /\ At(s, i + 10, ".")

\* r'(\d{8})' matches at position i
MatchCompactAt(s, i) == AllDigits(s, i, i + 7)

\* r'-(\d+)\.' matches at position i
MatchVariantAt(s, i) ==
    /\ At(s, i, "-")
    /\ DigitRunEnd(s, i + 1) >= i + 1
    /\ At(s, DigitRunEnd(s, i + 1) + 1, ".")

Min(S) == CHOOSE x \in S : \A y \in S : x <= y

\* (mutant) the pattern is found nowhere
NoPos(s) == {}

IsoPos(s)     == {i \in 1..Len(s) : MatchIsoAt(s, i)}
UsPos(s)      == {i \in 1..Len(s) : MatchUsAt(s, i)}
CompactPos(s) == {i \in 1..Len(s) : MatchCompactAt(s, i)}
VariantPos(s) == {i \in 1..Len(s) : MatchVariantAt(s, i)}

SentinelDate == <<"0","0","0","0","-","0","0","-","0","0">>

\* the file-name convention that decides the pair: "iso", "us", "compact" or "fallback"
Convention(fname) ==
    IF IsoPos(fname) # {} THEN "iso"
    ELSE IF UsPos(fname) # {} THEN "us"
    ELSE IF CompactPos(fname) # {} THEN "compact"
    ELSE "fallback"

\* variant.group(1) if variant else '0'
VariantOf(fname) ==
    IF VariantPos(fname) # {}
    THEN LET v == Min(VariantPos(fname))
         IN  Slice(fname, v + 1, DigitRunEnd(fname, v + 1))
    ELSE <<"0">>

\* (mutant) one constant key for every unrecognised file name
FallbackKeyConstant(fname) == <<"u", "n", "k", "n", "o", "w", "n">>

\* the account key of an unrecognised file name
FallbackKey(fname) == fname

_extract_date_and_account(fname) ==
    IF IsoPos(fname) # {}
    THEN LET i == Min(IsoPos(fname))
         IN  [date |-> Slice(fname, i, i + 9),
              acct |-> Slice(fname, i + 11, WordRunEnd(fname, i + 11))]
    ELSE IF UsPos(fname) # {}
    THEN LET i == Min(UsPos(fname))
         IN  [date |-> Slice(fname, i + 6, i + 9) \o <<"-">> \o Slice(fname, i, i + 1)
                       \o <<"-">> \o Slice(fname, i + 3, i + 4),
              acct |-> <<"m", "s">>]
    ELSE IF CompactPos(fname) # {}
    THEN LET i == Min(CompactPos(fname))
             d == Slice(fname, i, i + 7)
         IN  [date |-> Slice(d, 5, 8) \o <<"-">> \o Slice(d, 1, 2) \o <<"-">> \o Slice(d, 3, 4),
              acct |-> <<"f", "i", "d", "_">> \o VariantOf(fname)]
    ELSE [date |-> SentinelDate, acct |-> FallbackKey(fname)]

-----------------------------------------------------------------------------
(* _most_recent_files                                                      *)

\* os.path.splitext(f)[1]: from the last "." on, empty when only dots precede it
SplitExt(f) ==
    LET dots == {i \in 1..Len(f) : f[i] = "."}
    IN  IF dots = {} THEN <<>>
        ELSE LET d == CHOOSE i \in dots : \A j \in dots : j <= i
             IN  IF \E k \in 1..(d - 1) : f[k] # "." THEN Slice(f, d, Len(f)) ELSE <<>>

EXT_CSV == <<".", "c", "s", "v">>
EXT_PDF == <<".", "p", "d", "f">>

\* not f.startswith(".") and os.path.splitext(f)[1].lower() in (".csv", ".pdf")
IsStatementFile(f) ==
    /\ ~StartsWith(f, <<".">>)
    /\ Lower(SplitExt(f)) \in {EXT_CSV, EXT_PDF}

\* the filter's verdict on each file name of the folder
Listable == [f \in FileNames |-> IsStatementFile(f)]

\* files = [f for f in os.listdir(folder) if ...]
StatementFiles(listing) == SelectSeq(listing, LAMBDA f : Listable[f])

\* date_str, acct_id = _extract_date_and_account(f), for each file name of the folder
Extracted == [f \in FileNames |-> _extract_date_and_account(f)]

\* (mutant) the comparison reversed: the oldest file of an account is kept
ReplacesOlder(best, acct_id, date_str) ==
    acct_id \notin DOMAIN best \/ StrLt(date_str, best[acct_id].date)

\* the test of line 568 that makes file (date_str, acct_id) the best of its account
Replaces(best, acct_id, date_str) ==
    acct_id \notin DOMAIN best \/ StrGt(date_str, best[acct_id].date)

\* the dict best after the loop over files: account_id -> (date_str, fname)
RECURSIVE BestOf(_)
BestOf(files) ==
    IF files = <<>> THEN [k \in {} |-> 0]
    ELSE LET prev == BestOf(SubSeq(files, 1, Len(files) - 1))
             f    == files[Len(files)]
             e    == Extracted[f]
         IN  IF Replaces(prev, e.acct, e.date)
             THEN (e.acct :> [date |-> e.date, fname |-> f]) @@ prev
             ELSE prev

\* sorted(S) for a set of distinct strings
RECURSIVE Sorted(_)
Sorted(S) ==
    IF S = {} THEN <<>>
    ELSE LET m == CHOOSE x \in S : \A y \in S \ {x} : StrLt(x, y)
         IN  <<m>> \o Sorted(S \ {m})

_most_recent_files(listing) ==
    LET best == BestOf(StatementFiles(listing))
    IN  Sorted({best[k].fname : k \in DOMAIN best})

-----------------------------------------------------------------------------
(* The broker folder and the call of the selector.                         *)

Range(s) == {s[i] : i \in 1..Len(s)}

\* s with x inserted so that it becomes element number pos
InsertAt(s, pos, x) == SubSeq(s, 1, pos - 1) \o <<x>> \o SubSeq(s, pos, Len(s))

\* upload(): a .csv or .pdf file is saved into the folder; the directory
\* lists it at a position of the OS's choosing
Upload(f, pos) ==
    /\ Lower(SplitExt(f)) \in {EXT_CSV, EXT_PDF}
    /\ f \notin Range(folder)
    /\ Len(folder) < MaxFiles
    /\ pos \in 1..(Len(folder) + 1)
    /\ folder' = InsertAt(folder, pos, f)
    /\ sel_pc' = "idle"
    /\ files_to_load' = <<>>

\* a file of any kind is copied into the data folder by hand
DropFile(f, pos) ==
    /\ Lower(SplitExt(f)) \notin {EXT_CSV, EXT_PDF}
    /\ f \notin Range(folder)
    /\ Len(folder) < MaxFiles
    /\ pos \in 1..(Len(folder) + 1)
    /\ folder' = InsertAt(folder, pos, f)
    /\ sel_pc' = "idle"
    /\ files_to_load' = <<>>

NotHidden(f) == ~StartsWith(f, <<".">>)
IsHidden(f) == StartsWith(f, <<".">>)

\* clear_broker(): every file not starting with "." is removed
ClearBroker ==
    /\ folder # <<>>
    /\ folder' = SelectSeq(folder, IsHidden)
    /\ sel_pc' = "idle"
    /\ files_to_load' = <<>>

\* scan_data_folders(): files_to_load = _most_recent_files(folder)
SelectFiles ==
    /\ sel_pc = "idle"
    /\ sel_pc' = "selected"
    /\ files_to_load' = _most_recent_files(folder)
    /\ UNCHANGED folder

SelStart ==
    /\ folder = <<>>
    /\ sel_pc = "idle"
    /\ files_to_load = <<>>

-----------------------------------------------------------------------------
(* Text helpers of the document parsers.                                   *)

\* needle in s
Contains(s, needle) ==
    \E i \in 1..(Len(s) - Len(needle) + 1) : SubSeq(s, i, i + Len(needle) - 1) = needle

\* s.endswith(p)
EndsWith(s, p) == Len(s) >= Len(p) /\ SubSeq(s, Len(s) - Len(p) + 1, Len(s)) = p

\* s.strip(): leading and trailing blanks removed
RECURSIVE Strip(_)
Strip(s) ==
    IF s = <<>> THEN s
    ELSE IF s[1] = " " THEN Strip(Tail(s))
    ELSE IF s[Len(s)] = " " THEN Strip(SubSeq(s, 1, Len(s) - 1))
    ELSE s

\* the maximal runs of non-blank characters of s, in order: what \s+ separates
RECURSIVE Tokens(_)
Tokens(s) ==
    IF s = <<>> THEN <<>>
    ELSE IF s[1] = " " THEN Tokens(Tail(s))
    ELSE LET blanks == {i \in 1..Len(s) : s[i] = " "}
             e == IF blanks = {} THEN Len(s) ELSE Min(blanks) - 1
         IN  <<SubSeq(s, 1, e)>> \o Tokens(SubSeq(s, e + 1, Len(s)))

\* s with every character of set drop removed: chained str.replace(c, "")
RemoveChars(s, drop) == SelectSeq(s, LAMBDA c : c \notin drop)

\* end of the longest run of [\d,] characters starting at s[i]
RECURSIVE DigitCommaRunEnd(_, _)
DigitCommaRunEnd(s, i) ==
    IF i \in 1..Len(s) /\ (IsDigit(s[i]) \/ s[i] = ",")
    THEN DigitCommaRunEnd(s, i + 1) ELSE i - 1

\* end of the match of r'[\d,]+\.[\d]+' starting at s[i], 0 when there is none.
\* Both runs are greedy; neither can give a character back.
NumEndAt(s, i) ==
    LET a == DigitCommaRunEnd(s, i)
    IN  IF a >= i /\ At(s, a + 1, ".") /\ DigitRunEnd(s, a + 2) >= a + 2
        THEN DigitRunEnd(s, a + 2) ELSE 0

\* a whole token is r'[\d,]+\.[\d]+' (the field is followed by \s+ in the pattern)
IsNumTok(tok) == NumEndAt(tok, 1) = Len(tok)

\* a token starts with r'[\d,]+\.[\d]+' (last field of a pattern)
HasNumPrefix(tok) == NumEndAt(tok, 1) > 0

\* the text the last field captures
NumPrefix(tok) == SubSeq(tok, 1, NumEndAt(tok, 1))

-----------------------------------------------------------------------------
(* _clean: currency text to a number.  Numbers are counted in units of     *)
(* 10^-FracDigits.                                                         *)

FracDigits == 4

RECURSIVE Pow10(_)
Pow10(n) == IF n = 0 THEN 1 ELSE 10 * Pow10(n - 1)

DigitVal(c) == Ord[c] - Ord["0"]

\* value of a digit string as a natural number
RECURSIVE NatOf(_)
NatOf(ds) ==
    IF ds = <<>> THEN 0
    ELSE 10 * NatOf(SubSeq(ds, 1, Len(ds) - 1)) + DigitVal(ds[Len(ds)])

\* value of the fraction digits fs, in units of 10^-FracDigits
FracOf(fs) ==
    IF Len(fs) >= FracDigits THEN NatOf(SubSeq(fs, 1, FracDigits))
    ELSE NatOf(fs) * Pow10(FracDigits - Len(fs))

\* a run of digits in which single underscores may stand between digits
DigitGroup(s) ==
    /\ s # <<>>
    /\ IsDigit(s[1]) /\ IsDigit(s[Len(s)])
    /\ \A k \in 1..Len(s) : IsDigit(s[k]) \/ s[k] = "_"
    /\ \A k \in 1..(Len(s) - 1) : ~(s[k] = "_" /\ s[k + 1] = "_")

GroupValue(s) == NatOf(RemoveChars(s, {"_"}))

\* the positions of the characters of set cs in s
PositionsOf(s, cs) == {k \in 1..Len(s) : s[k] \in cs}

\* digits, digits., .digits or digits.digits
IsMantissa(m) ==
    LET ds == PositionsOf(m, {"."})
    IN  IF ds = {} THEN DigitGroup(m)
        ELSE /\ Cardinality(ds) = 1
             /\ Len(m) > 1
             /\ (Min(ds) = 1 \/ DigitGroup(SubSeq(m, 1, Min(ds) - 1)))
             /\ (Min(ds) = Len(m) \/ DigitGroup(SubSeq(m, Min(ds) + 1, Len(m))))

\* the value of a mantissa whose point is at d (Len(m) + 1 when it has none)
MantissaValueAt(m, d) ==
    GroupValue(SubSeq(m, 1, d - 1)) * Pow10(FracDigits)
    + FracOf(RemoveChars(SubSeq(m, d + 1, Len(m)), {"_"}))

MantissaValue(m) ==
    MantissaValueAt(m, IF PositionsOf(m, {"."}) = {} THEN Len(m) + 1
                       ELSE Min(PositionsOf(m, {"."})))

\* the text after e or E: an optional sign and digits
IsExponent(x) ==
    IF x # <<>> /\ x[1] \in {"-", "+"} THEN DigitGroup(Tail(x)) ELSE DigitGroup(x)

ExponentValue(x) ==
    IF x[1] = "-" THEN 0 - GroupValue(Tail(x))
    ELSE IF x[1] = "+" THEN GroupValue(Tail(x))
    ELSE GroupValue(x)

\* v * 10^n
Scaled(v, n) == IF n >= 0 THEN v * Pow10(n) ELSE v \div Pow10(0 - n)

\* s is an unsigned finite literal float() accepts: a mantissa and an
\* optional exponent
IsDecimal(s) ==
    LET es == PositionsOf(s, {"e", "E"})
    IN  IF es = {} THEN IsMantissa(s)
        ELSE /\ IsMantissa(SubSeq(s, 1, Min(es) - 1))
             /\ IsExponent(SubSeq(s, Min(es) + 1, Len(s)))

DecimalValue(s) ==
    LET es == PositionsOf(s, {"e", "E"})
    IN  IF es = {} THEN MantissaValue(s)
        ELSE Scaled(MantissaValue(SubSeq(s, 1, Min(es) - 1)),
                    ExponentValue(SubSeq(s, Min(es) + 1, Len(s))))

\* a float: a finite number val (in units of 10^-FracDigits), an infinity
\* (val is its sign) or nan
Finite(v) == [kind |-> "finite", val |-> v]
INF       == [kind |-> "inf", val |-> 1]
NAN       == [kind |-> "nan", val |-> 0]

\* -f
Negated(f) == [kind |-> f.kind, val |-> 0 - f.val]

S_inf      == <<"i","n","f">>
S_infinity == <<"i","n","f","i","n","i","t","y">>
S_nan      == <<"n","a","n">>

\* float() of a text without sign; a ValueError is reported as ok = FALSE
UnsignedFloat(body) ==
    IF Len(body) \in {3, 8} /\ Lower(body) \in {S_inf, S_infinity}
    THEN [ok |-> TRUE, f |-> INF]
    ELSE IF Len(body) = 3 /\ Lower(body) = S_nan THEN [ok |-> TRUE, f |-> NAN]
    ELSE IF IsDecimal(body) THEN [ok |-> TRUE, f |-> Finite(DecimalValue(body))]
    ELSE [ok |-> FALSE, f |-> Finite(0)]

\* the text after an optional sign
Unsigned(t) == IF t # <<>> /\ t[1] \in {"-", "+"} THEN Tail(t) ELSE t

\* the result r of the text after the sign, negated under a minus sign
WithSign(minus, r) == IF minus THEN [ok |-> r.ok, f |-> Negated(r.f)] ELSE r

\* float() of a text t without blanks around it
SignedFloat(t) == WithSign(t # <<>> /\ t[1] = "-", UnsignedFloat(Unsigned(t)))

\* float(s); a ValueError is reported as ok = FALSE
ToFloat(s) == SignedFloat(Strip(s))

\* the argument None
NONE == <<"None">>

\* (mutant) parentheses are not taken as a sign
IsNegativeNever(s) == FALSE

\* negative = s.startswith("(") and s.endswith(")")
IsNegative(s) == StartsWith(s, <<"(">>) /\ EndsWith(s, <<")">>)

\* -float(s) if negative else float(s or 0), with the ValueError handler:
\* r is float(s) and empty tells that s is ""
FloatOrZero(negative, empty, r) ==
    IF negative THEN (IF r.ok THEN Negated(r.f) ELSE Finite(0))
    ELSE IF empty THEN Finite(0)
    ELSE IF r.ok THEN r.f
    ELSE Finite(0)

\* the try block of _clean for the text s stripped of $ , % and blanks
CleanStripped(s, t) == FloatOrZero(IsNegative(s), t = <<>>, ToFloat(t))

CleanText(s) == CleanStripped(s, RemoveChars(s, {"(", ")"}))

\* _clean(val) for val None or a str: the float returned
_clean(val) ==
    IF val = NONE THEN Finite(0)
    ELSE CleanText(Strip(RemoveChars(val, {"$", ",", "%"})))

\* _clean on a field a numeric pattern has matched: the float is finite
CleanNum(val) == _clean(val).val

-----------------------------------------------------------------------------
(* _clean called on one argument: a currency rendering of an amount, or    *)
(* one of the other texts a statement cell can hold.                       *)

DigitChar(d) == Alphabet[Ord["0"] + d]

\* the decimal digits of the natural number n
RECURSIVE DigitsOfNat(_)
DigitsOfNat(n) ==
    IF n < 10 THEN <<DigitChar(n)>>
    ELSE DigitsOfNat(n \div 10) \o <<DigitChar(n % 10)>>

\* digits with a comma before every group of three
RECURSIVE Grouped(_)
Grouped(ds) ==
    IF Len(ds) <= 3 THEN ds
    ELSE Grouped(SubSeq(ds, 1, Len(ds) - 3)) \o <<",">> \o SubSeq(ds, Len(ds) - 2, Len(ds))

\* how an amount is written: with or without $, %, thousands separators and
\* cents, a negative amount in parentheses or with a minus sign
Formats ==
    [dollar : BOOLEAN, percent : BOOLEAN, commas : BOOLEAN, cents : BOOLEAN,
     negative : {"parentheses", "minus"}]

\* the unsigned text of c cents
RenderAbs(c, fmt) ==
    (IF fmt.dollar THEN <<"$">> ELSE <<>>)
    \o (IF fmt.commas THEN Grouped(DigitsOfNat(c \div 100)) ELSE DigitsOfNat(c \div 100))
    \o (IF fmt.cents THEN <<".", DigitChar((c % 100) \div 10), DigitChar(c % 10)>> ELSE <<>>)
    \o (IF fmt.percent THEN <<"%">> ELSE <<>>)

\* the text of the amount x, given in cents
Render(x, fmt) ==
    IF x >= 0 THEN RenderAbs(x, fmt)
    ELSE IF fmt.negative = "parentheses" THEN <<"(">> \o RenderAbs(0 - x, fmt) \o <<")">>
    ELSE <<"-">> \o RenderAbs(0 - x, fmt)

\* the amounts rendered, in cents
PositiveAmounts == {1, 50, 99, 100, 1200, 99900, 100000, 123450, 12345678}

Amounts == {0} \cup PositiveAmounts \cup {0 - x : x \in PositiveAmounts}

\* x cents in units of 10^-FracDigits
UnitsOfCents(x) == x * Pow10(FracDigits - 2)

A_EMPTY == <<>>

A_PARENS == <<"(",")">>

A_ALPHA == <<"a","b","c">>

A_NA == <<"N","/","A">>

A_NOT_APPLICABLE == <<"n","o","t"," ","a","p","p","l","i","c","a","b","l","e">>

A_DOLLAR == <<"$">>

A_SIGNS == <<"$","%",",">>

A_TWO_POINTS == <<"1",".","2",".","3">>

A_TWO_MINUS == <<"-","-","5">>

A_MINUS == <<"-">>

A_POINT == <<".">>

A_BLANK == <<" ">>

A_OPEN_PAREN == <<"(","5">>

A_WORDS == <<"1","2"," ","A","B","C">>

A_PAREN_ALPHA == <<"(","a","b","c",")">>

A_nan == <<"n","a","n">>

A_NaN == <<"N","a","N">>

A_inf == <<"i","n","f">>

A_minus_inf == <<"-","i","n","f">>

A_Infinity == <<"I","n","f","i","n","i","t","y">>

A_paren_inf == <<"(","i","n","f",")">>

A_dollar_nan == <<"$","n","a","n">>

A_EXP == <<"1","e","3">>

A_UNDERSCORE == <<"1","_","0","0","0">>

A_LEAD_POINT == <<".","5">>

A_TRAIL_POINT == <<"5",".">>

A_PADDED == <<" ","1","2"," ">>

A_PAREN_MINUS == <<"(","-","5",")">>

A_DOLLAR_PAREN == <<"$","(","5",")">>

\* arguments that are not renderings of an amount
OtherArguments ==
    {NONE,
     A_EMPTY, A_PARENS, A_ALPHA, A_NA, A_NOT_APPLICABLE,
     A_DOLLAR, A_SIGNS, A_TWO_POINTS, A_TWO_MINUS, A_MINUS,
     A_POINT, A_BLANK, A_OPEN_PAREN, A_WORDS, A_PAREN_ALPHA,
     A_nan, A_NaN, A_inf, A_minus_inf, A_Infinity,
     A_paren_inf, A_dollar_nan, A_EXP, A_UNDERSCORE, A_LEAD_POINT,
     A_TRAIL_POINT, A_PADDED, A_PAREN_MINUS, A_DOLLAR_PAREN}


NO_RETURN == [kind |-> "none", val |-> 0]

CleanStart ==
    /\ clean_pc = "call"
    /\ clean_ret = NO_RETURN
    /\ \/ \E x \in Amounts : \E fmt \in Formats :
              /\ fmt.cents \/ x % 100 = 0
              /\ clean_val = Render(x, fmt)
              /\ clean_src = [rendered |-> TRUE, amount |-> x]
       \/ \E s \in OtherArguments :
              /\ clean_val = s
              /\ clean_src = [rendered |-> FALSE, amount |-> 0]

\* _clean(val) is called and returns
CleanCall ==
    /\ clean_pc = "call"
    /\ clean_ret' = _clean(clean_val)
    /\ clean_pc' = "returned"
    /\ UNCHANGED <<clean_val, clean_src>>

-----------------------------------------------------------------------------
(* _extract_date_and_account called on one file name.  The names are made  *)
(* of segments that bring the conventions together in one name.            *)

G_WORD == <<"S","t","m","t">>
G_ISO == <<"2","0","2","5","-","0","9","-","3","0","_">>
G_US == <<"1","2","_","3","1","_","2","0","2","5">>
G_COMPACT == <<"1","2","3","1","2","0","2","5">>
G_VARIANT == <<"-","2">>
G_ACCT == <<"1","1","1">>
G_DOT == <<".">>
G_SPACE == <<" ">>

Segments == {G_WORD, G_ISO, G_US, G_COMPACT, G_VARIANT, G_ACCT, G_DOT, G_SPACE}

\* most segments of a name
MaxSegments == 3

RECURSIVE Joined(_)
Joined(parts) == IF parts = <<>> THEN <<>> ELSE parts[1] \o Joined(Tail(parts))

\* the names: up to MaxSegments segments and the extension .pdf
ExtractNames ==
    {Joined(parts) \o EXT_PDF : parts \in UNION {[1..n -> Segments] : n \in 1..MaxSegments}}

NO_PAIR == [date |-> <<>>, acct |-> <<>>]

ExtractStart ==
    /\ ext_pc = "call"
    /\ ext_fname \in ExtractNames
    /\ ext_ret = NO_PAIR

\* _extract_date_and_account(fname) is called and returns
ExtractCall ==
    /\ ext_pc = "call"
    /\ ext_ret' = _extract_date_and_account(ext_fname)
    /\ ext_pc' = "returned"
    /\ UNCHANGED ext_fname

-----------------------------------------------------------------------------
(* parse_schwab_pdf                                                        *)

\* Positions - Equities
L_EQ ==
    <<"P","o","s","i","t","i","o","n","s"," ","-"," ","E","q","u","i","t","i","e","s">>

\* Positions - Exchange Traded Funds
L_ETF ==
    <<"P","o","s","i","t","i","o","n","s"," ","-"," ","E","x","c","h","a","n","g","e"," ","T","r","a","d","e","d"," ","F","u","n","d","s">>

\* Positions - Fixed Income
L_FI ==
    <<"P","o","s","i","t","i","o","n","s"," ","-"," ","F","i","x","e","d"," ","I","n","c","o","m","e">>

\* Positions - Options
L_OPT ==
    <<"P","o","s","i","t","i","o","n","s"," ","-"," ","O","p","t","i","o","n","s">>

\* Transactions
L_TXN ==
    <<"T","r","a","n","s","a","c","t","i","o","n","s">>

\* Transactions Positions - Equities
L_TXN_EQ ==
    <<"T","r","a","n","s","a","c","t","i","o","n","s"," ","P","o","s","i","t","i","o","n","s"," ","-"," ","E","q","u","i","t","i","e","s">>

\* AAPL APPLEINC 10.0000 150.00 1,500.00 1,200.00 300.00
L_ROW ==
    <<"A","A","P","L"," ","A","P","P","L","E","I","N","C"," ","1","0",".","0","0","0","0"," ","1","5","0",".","0","0"," ","1",",","5","0","0",".","0","0"," ","1",",","2","0","0",".","0","0"," ","3","0","0",".","0","0">>

\* XYZ DELISTED 5.0000 0.00 0.00 250.00 (250.00)
L_ROW_ZERO ==
    <<"X","Y","Z"," ","D","E","L","I","S","T","E","D"," ","5",".","0","0","0","0"," ","0",".","0","0"," ","0",".","0","0"," ","2","5","0",".","0","0"," ","(","2","5","0",".","0","0",")">>

\* CASH PATHWARD 10.0000 70.00 700.00 650.00 50.00
L_ROW_CASH ==
    <<"C","A","S","H"," ","P","A","T","H","W","A","R","D"," ","1","0",".","0","0","0","0"," ","7","0",".","0","0"," ","7","0","0",".","0","0"," ","6","5","0",".","0","0"," ","5","0",".","0","0">>

\* 912828YK0 USTREASURY 1.50 05/15/30 5,000.0000 98.50 4,925.00 5,000.00
L_BOND ==
    <<"9","1","2","8","2","8","Y","K","0"," ","U","S","T","R","E","A","S","U","R","Y"," ","1",".","5","0"," ","0","5","/","1","5","/","3","0"," ","5",",","0","0","0",".","0","0","0","0"," ","9","8",".","5","0"," ","4",",","9","2","5",".","0","0"," ","5",",","0","0","0",".","0","0">>

\* BankSweep CHARLESSCHWAB 20,000.00 20,825.65
L_SWEEP_A ==
    <<"B","a","n","k","S","w","e","e","p"," ","C","H","A","R","L","E","S","S","C","H","W","A","B"," ","2","0",",","0","0","0",".","0","0"," ","2","0",",","8","2","5",".","6","5">>

\* BankSweep CHARLESSCHWAB 300.00 174.35
L_SWEEP_B ==
    <<"B","a","n","k","S","w","e","e","p"," ","C","H","A","R","L","E","S","S","C","H","W","A","B"," ","3","0","0",".","0","0"," ","1","7","4",".","3","5">>

\* BankSweep CHARLESSCHWAB 100.00 0.00
L_SWEEP_ZERO ==
    <<"B","a","n","k","S","w","e","e","p"," ","C","H","A","R","L","E","S","S","C","H","W","A","B"," ","1","0","0",".","0","0"," ","0",".","0","0">>

\* SIPC MEMBER 5.0000 10.00 50.00 40.00 10.00
L_ROW_SIPC ==
    <<"S","I","P","C"," ","M","E","M","B","E","R"," ","5",".","0","0","0","0"," ","1","0",".","0","0"," ","5","0",".","0","0"," ","4","0",".","0","0"," ","1","0",".","0","0">>

\*  Total BankSweep CHARLESSCHWAB 20,000.00 20,825.65
L_TOTAL_SWEEP ==
    <<" ","T","o","t","a","l"," ","B","a","n","k","S","w","e","e","p"," ","C","H","A","R","L","E","S","S","C","H","W","A","B"," ","2","0",",","0","0","0",".","0","0"," ","2","0",",","8","2","5",".","6","5">>

\* Estimated USTREASURY 05/15/30 5,000.0000 98.50 4,925.00 5,000.00
L_EST_BOND ==
    <<"E","s","t","i","m","a","t","e","d"," ","U","S","T","R","E","A","S","U","R","Y"," ","0","5","/","1","5","/","3","0"," ","5",",","0","0","0",".","0","0","0","0"," ","9","8",".","5","0"," ","4",",","9","2","5",".","0","0"," ","5",",","0","0","0",".","0","0">>

\* BOND PIMCOBOND 10.0000 90.00 900.00 950.00 (50.00)
L_ROW_BOND ==
    <<"B","O","N","D"," ","P","I","M","C","O","B","O","N","D"," ","1","0",".","0","0","0","0"," ","9","0",".","0","0"," ","9","0","0",".","0","0"," ","9","5","0",".","0","0"," ","(","5","0",".","0","0",")">>

SchwabLines ==
    {L_EQ, L_ETF, L_FI, L_OPT, L_TXN, L_TXN_EQ,
     L_ROW, L_ROW_ZERO, L_ROW_CASH, L_ROW_SIPC, L_BOND,
     L_SWEEP_A, L_SWEEP_B, L_SWEEP_ZERO,
     L_TOTAL_SWEEP, L_EST_BOND, L_ROW_BOND}

\* most lines one document holds
MaxLines == 3

\* most pages one document holds
MaxPages == 2

\* the section-header and discard phrases
S_POS_EQ    == <<"P","o","s","i","t","i","o","n","s"," ","-"," ","E","q","u","i","t","i","e","s">>
S_POS_ETF   == <<"P","o","s","i","t","i","o","n","s"," ","-"," ","E","x","c","h","a","n","g","e"," ","T","r","a","d","e","d"," ","F","u","n","d","s">>
S_POS_FI    == <<"P","o","s","i","t","i","o","n","s"," ","-"," ","F","i","x","e","d"," ","I","n","c","o","m","e">>
S_POS_OPT   == <<"P","o","s","i","t","i","o","n","s"," ","-"," ","O","p","t","i","o","n","s">>
S_TXN       == <<"T","r","a","n","s","a","c","t","i","o","n","s">>
S_TOTAL     == <<"T","o","t","a","l">>
S_ESTIMATED == <<"E","s","t","i","m","a","t","e","d">>
S_BANKSWEEP == <<"B","a","n","k","S","w","e","e","p">>
S_NA        == <<"N","/","A">>

SYM_CASH == <<"C","A","S","H">>
SYM_BOND == <<"B","O","N","D">>
DESC_CASH == <<"C","a","s","h"," ","&"," ","S","w","e","e","p">>

\* account_label of the Schwab folder
SCHWAB == <<"S","c","h","w","a","b">>

\* r'_(\d{3})\.PDF$' with re.IGNORECASE matches at position i of path
MatchAcctNumAt(path, i) ==
    /\ At(path, i, "_") /\ AllDigits(path, i + 1, i + 3)
    /\ i + 7 = Len(path)
    /\ Lower(SubSeq(path, i + 4, i + 7)) = EXT_PDF

\* label = account_label + acct_suffix
SchwabLabel(path, account_label) ==
    LET pos == {i \in 1..Len(path) : MatchAcctNumAt(path, i)}
    IN  IF pos # {}
        THEN account_label \o <<" ", "(">> \o SubSeq(path, Min(pos) + 1, Min(pos) + 3) \o <<")">>
        ELSE account_label

\* r'[A-Z][A-Z0-9\.\-]{0,5}' is the whole token
IsTicker(tok) ==
    /\ Len(tok) \in 1..6
    /\ tok[1] \in Upper
    /\ \A i \in 2..Len(tok) : tok[i] \in Upper \cup Digits \cup {".", "-"}

\* a token starts with r'\(?[\d,]+\.[\d]+\)?|N/A'
IsGainTok(tok) ==
    \/ HasNumPrefix(tok)
    \/ tok # <<>> /\ tok[1] = "(" /\ HasNumPrefix(Tail(tok))
    \/ StartsWith(tok, S_NA)

\* _SCHWAB_ROW matches with a description of k tokens: the symbol, the
\* description, four numeric fields and the gain/loss field
RowShape(toks, k) ==
    /\ k >= 1 /\ Len(toks) >= k + 6
    /\ IsTicker(toks[1])
    /\ \A j \in (k + 2)..(k + 5) : IsNumTok(toks[j])
    /\ IsGainTok(toks[k + 6])

RowDescLens(toks) == {k \in 1..Len(toks) : RowShape(toks, k)}

\* _SCHWAB_ROW.match(line); the description is lazy, so the shortest one is taken
SchwabRowMatch(line) ==
    LET toks == Tokens(line)
    IN  IF RowDescLens(toks) = {} THEN [matched |-> FALSE]
        ELSE LET k == Min(RowDescLens(toks))
             IN  [matched |-> TRUE, symbol |-> toks[1],
                  qty |-> toks[k + 2], price |-> toks[k + 3],
                  mv |-> toks[k + 4], cb |-> toks[k + 5]]

\* r'[\d\.]+' is the whole token (the optional coupon)
IsCouponTok(tok) == tok # <<>> /\ \A i \in 1..Len(tok) : IsDigit(tok[i]) \/ tok[i] = "."

\* r'\d{2}/\d{2}/\d{2}' is the whole token
IsDateTok(tok) ==
    /\ Len(tok) = 8
    /\ AllDigits(tok, 1, 2) /\ tok[3] = "/"
    /\ AllDigits(tok, 4, 5) /\ tok[6] = "/"
    /\ AllDigits(tok, 7, 8)

\* _SCHWAB_BOND matches with the maturity date as token number d (3, or 4
\* after a coupon)
BondShape(toks, d) ==
    /\ Len(toks) >= d + 4
    /\ Len(toks[1]) = 9
    /\ (d = 4 => IsCouponTok(toks[3]))
    /\ IsDateTok(toks[d])
    /\ \A j \in (d + 1)..(d + 3) : IsNumTok(toks[j])
    /\ HasNumPrefix(toks[d + 4])

\* _SCHWAB_BOND.match(line)
SchwabBondMatch(line) ==
    LET toks == Tokens(line)
        ds   == {d \in {3, 4} : BondShape(toks, d)}
    IN  IF ds = {} THEN [matched |-> FALSE]
        ELSE LET d == CHOOSE x \in ds : TRUE
             IN  [matched |-> TRUE, desc |-> toks[2],
                  qty |-> toks[d + 1], price |-> toks[d + 2],
                  mv |-> toks[d + 3], cb |-> NumPrefix(toks[d + 4])]

\* _SCHWAB_CASH matches with "BankSweep" ending token number t
CashShape(toks, t) ==
    /\ Len(toks) >= t + 3
    /\ EndsWith(toks[t], S_BANKSWEEP)
    /\ IsNumTok(toks[t + 2])
    /\ HasNumPrefix(toks[t + 3])

\* _SCHWAB_CASH.search(line): the leftmost match; amount is m.group(1)
SchwabCashSearch(line) ==
    LET toks == Tokens(line)
        ts   == {t \in 1..Len(toks) : CashShape(toks, t)}
    IN  IF ts = {} THEN [matched |-> FALSE]
        ELSE [matched |-> TRUE, amount |-> NumPrefix(toks[Min(ts) + 3])]

\* the non-ticker tokens
_NON_TICKER ==
    { <<"S","I","P","C">>, <<"S","E","C">>, <<"N","F","S">>, <<"F","B","S">>,
      <<"I","R","A">>, <<"E","T","F">>, <<"E","T","N">>, <<"I","N","C">>,
      <<"C","L">>, <<"S","T","K">>, <<"C","O","M">>, <<"L","L","C">>,
      <<"L","T","D">>, <<"U","S","D">>, <<"E","U","R">>, <<"N","P","V">>,
      <<"C","A","P">>, <<"A","D","R">>, <<"N","A">>, <<"I","S","I","N">>,
      <<"S","E","D","O","L">>, <<"C","U","S","I","P">>, <<"A","C","T">>,
      <<"A","L","L">>, <<"A","N","Y">>, <<"F","O","R">>, <<"T","H","E">>,
      <<"A","N","D">>, <<"A","R","E">>, <<"N","O","T">>, <<"M","A","Y">>,
      <<"S","P","A">>, <<"S","P","C">>, <<"A","M","P">> }

\* (mutant) no symbol is refused
IsNonTickerNever(symbol) == FALSE

\* symbol in _NON_TICKER
IsNonTicker(symbol) == symbol \in _NON_TICKER

\* the document's page and line loops: what one line does to the section
\* context and to the holdings.  st = [in_positions, current_type, cash_val, holdings]

\* (mutant) the "Transactions" test left out
ClosesPositionsOptionsOnly(line) == Contains(line, S_POS_OPT)

\* "Positions - Options" in line or "Transactions" in line
ClosesPositions(line) == Contains(line, S_POS_OPT) \/ Contains(line, S_TXN)

\* (mutant) no line is discarded as a summary row
IsSummaryRowNever(line) == FALSE

\* line.startswith("Total") or line.startswith("Estimated")
IsSummaryRow(line) == StartsWith(line, S_TOTAL) \/ StartsWith(line, S_ESTIMATED)

\* the asset types the three positions banners set
TYPE_EQUITIES     == "Stock"
TYPE_ETF          == "ETF"
TYPE_FIXED_INCOME == "Bond"

\* (mutant) the section's asset type ignored: every inline row is a Stock
RowHoldingAlwaysStock(m, line, label, type) ==
    [account      |-> label,
     symbol       |-> m.symbol,
     description  |-> Tokens(line)[2],
     quantity     |-> CleanNum(m.qty),
     last_price   |-> CleanNum(m.price),
     market_value |-> CleanNum(m.mv),
     cost_basis   |-> CleanNum(m.cb),
     type         |-> "Stock"]

\* the Holding of an inline row
RowHolding(m, line, label, type) ==
    [account      |-> label,
     symbol       |-> m.symbol,
     description  |-> Tokens(line)[2],
     quantity     |-> CleanNum(m.qty),
     last_price   |-> CleanNum(m.price),
     market_value |-> CleanNum(m.mv),
     cost_basis   |-> CleanNum(m.cb),
     type         |-> type]

\* the Holding of a fixed-income row
BondHolding(mb, label) ==
    [account      |-> label,
     symbol       |-> SYM_BOND,
     description  |-> mb.desc,
     quantity     |-> CleanNum(mb.qty),
     last_price   |-> CleanNum(mb.price),
     market_value |-> CleanNum(mb.mv),
     cost_basis   |-> CleanNum(mb.cb),
     type         |-> "Bond"]

\* the synthetic record appended after the page loop
CashHolding(label, cash) ==
    [account      |-> label,
     symbol       |-> SYM_CASH,
     description  |-> DESC_CASH,
     quantity     |-> Pow10(FracDigits),
     last_price   |-> cash,
     market_value |-> cash,
     cost_basis   |-> cash,
     type         |-> "Cash"]

\* cash_val after a cash-sweep line that captured amount
CashAfter(cash, amount) == CleanNum(amount)

\* line = line.strip() and the three patterns tried on it, for each line of text
Stripped == [l \in SchwabLines |-> Strip(l)]
CashM    == [l \in SchwabLines |-> SchwabCashSearch(Stripped[l])]
RowM     == [l \in SchwabLines |-> SchwabRowMatch(Stripped[l])]
BondM    == [l \in SchwabLines |-> SchwabBondMatch(Stripped[l])]

\* the body of the line loop
ScanLine(st, rawline, label) ==
    LET line == Stripped[rawline]
        mc   == CashM[rawline]
        m    == RowM[rawline]
        mb   == BondM[rawline]
    IN  IF Contains(line, S_POS_EQ)
        THEN [st EXCEPT !.in_positions = TRUE, !.current_type = TYPE_EQUITIES]
        ELSE IF Contains(line, S_POS_ETF)
        THEN [st EXCEPT !.in_positions = TRUE, !.current_type = TYPE_ETF]
        ELSE IF Contains(line, S_POS_FI)
        THEN [st EXCEPT !.in_positions = TRUE, !.current_type = TYPE_FIXED_INCOME]
        ELSE IF ClosesPositions(line)
        THEN [st EXCEPT !.in_positions = FALSE]
        ELSE IF IsSummaryRow(line)
        THEN st
        ELSE IF mc.matched
        THEN [st EXCEPT !.cash_val = CashAfter(st.cash_val, mc.amount)]
        ELSE IF ~st.in_positions
        THEN st
        ELSE IF m.matched
        THEN IF IsNonTicker(m.symbol)
             THEN st
             ELSE [st EXCEPT !.holdings =
                       Append(@, RowHolding(m, line, label, st.current_type))]
        ELSE IF st.current_type = "Bond" /\ mb.matched
        THEN [st EXCEPT !.holdings = Append(@, BondHolding(mb, label))]
        ELSE st

\* holdings once the page loop has ended
WithCash(hs, label, cash) ==
    IF cash > 0 THEN Append(hs, CashHolding(label, cash)) ELSE hs

\* the statements parse_schwab_pdf is called on
SchwabPaths == {F_STMT_SEP_582, F_NOTES}

Label == SchwabLabel(sch_path, SCHWAB)

\* for page in pdf.pages: the next page is entered
SchwabNextPage ==
    /\ sch_pc = "scanning"
    /\ sch_page < MaxPages
    /\ sch_page' = sch_page + 1
    /\ UNCHANGED <<sch_path, sch_pc, sch_read, in_positions, current_type,
                   cash_val, holdings>>

\* for line in text.splitlines(): one line of the current page is scanned
SchwabReadLine(rawline) ==
    /\ sch_pc = "scanning"
    /\ sch_page >= 1
    /\ Len(sch_read) < MaxLines
    /\ LET st == ScanLine([in_positions |-> in_positions,
                           current_type |-> current_type,
                           cash_val     |-> cash_val,
                           holdings     |-> holdings], rawline, Label)
       IN  /\ in_positions' = st.in_positions
           /\ current_type' = st.current_type
           /\ cash_val'     = st.cash_val
           /\ holdings'     = st.holdings
    /\ sch_read' = Append(sch_read, rawline)
    /\ UNCHANGED <<sch_path, sch_pc, sch_page>>

\* the line stream is exhausted: the cash record is appended, holdings returned
SchwabReturn ==
    /\ sch_pc = "scanning"
    /\ sch_pc' = "done"
    /\ holdings' = WithCash(holdings, Label, cash_val)
    /\ UNCHANGED <<sch_path, sch_page, sch_read, in_positions, current_type, cash_val>>

\* parse_schwab_pdf(path, account_label) is entered
SchStart ==
    /\ sch_path \in SchwabPaths
    /\ sch_pc = "scanning"
    /\ sch_page = 0
    /\ sch_read = <<>>
    /\ in_positions = FALSE
    /\ current_type = "Stock"
    /\ cash_val = 0
    /\ holdings = <<>>

-----------------------------------------------------------------------------
(* parse_fidelity_pdf: the patterns _FID_SYM_INLINE, _FID_SYM_ANY and       *)
(* _FID_NUMS_LINE.                                                         *)

\* [A-Z0-9\.]
IsSymChar(c) == c \in Upper \cup Digits \cup {"."}

\* end of the longest run of [A-Z0-9\.] characters starting at s[i]
RECURSIVE SymRunEnd(_, _)
SymRunEnd(s, i) ==
    IF i \in 1..Len(s) /\ IsSymChar(s[i]) THEN SymRunEnd(s, i + 1) ELSE i - 1

\* position of the ")" of the match of r'\(([A-Z][A-Z0-9\.]{0,5})\)' that
\* starts at s[p], 0 when there is none
SymEndAt(s, p) ==
    IF At(s, p, "(") /\ p + 1 <= Len(s) /\ s[p + 1] \in Upper
    THEN LET e == SymRunEnd(s, p + 2)
         IN  IF e - (p + 1) <= 5 /\ At(s, e + 1, ")") THEN e + 1 ELSE 0
    ELSE 0

\* end of the run of blanks starting at s[i] (i - 1 when s[i] is no blank)
RECURSIVE BlankRunEnd(_, _)
BlankRunEnd(s, i) ==
    IF i \in 1..Len(s) /\ s[i] = " " THEN BlankRunEnd(s, i + 1) ELSE i - 1

S_NOT_APPLICABLE == <<"n","o","t"," ","a","p","p","l","i","c","a","b","l","e">>

NO_NUMS == [ok |-> FALSE, start |-> 0, qty |-> <<>>, price |-> <<>>, mv |-> <<>>, cb |-> <<>>]

\* r'\s+\$?' after a field that ends at s[e]: the position where the next
\* field starts, 0 when no blank follows
NextField(s, e) ==
    IF BlankRunEnd(s, e + 1) > e
    THEN (IF At(s, BlankRunEnd(s, e + 1) + 1, "$")
          THEN BlankRunEnd(s, e + 1) + 2 ELSE BlankRunEnd(s, e + 1) + 1)
    ELSE 0

\* end of the match of r'([\d,]+\.[\d]+|not applicable)' at s[p], 0 when there is none
LastFieldEndAt(s, p) ==
    IF NumEndAt(s, p) > 0 THEN NumEndAt(s, p)
    ELSE IF p + Len(S_NOT_APPLICABLE) - 1 <= Len(s)
            /\ SubSeq(s, p, p + Len(S_NOT_APPLICABLE) - 1) = S_NOT_APPLICABLE
    THEN p + Len(S_NOT_APPLICABLE) - 1
    ELSE 0

\* the fields [from, to] of k fields matched from s[p] on, each but the last
\* followed by r'\s+\$?'; <<>> when they do not match
RECURSIVE FieldsAt(_, _, _)
FieldsAt(s, p, k) ==
    IF k = 1
    THEN (IF LastFieldEndAt(s, p) > 0 THEN <<[from |-> p, to |-> LastFieldEndAt(s, p)]>>
          ELSE <<>>)
    ELSE IF NumEndAt(s, p) > 0 /\ NextField(s, NumEndAt(s, p)) > 0
            /\ FieldsAt(s, NextField(s, NumEndAt(s, p)), k - 1) # <<>>
    THEN <<[from |-> p, to |-> NumEndAt(s, p)]>>
         \o FieldsAt(s, NextField(s, NumEndAt(s, p)), k - 1)
    ELSE <<>>

FieldText(s, fld) == SubSeq(s, fld.from, fld.to)

NumsRecord(s, i, f) ==
    IF f = <<>> THEN NO_NUMS
    ELSE [ok |-> TRUE, start |-> i,
          qty |-> FieldText(s, f[1]), price |-> FieldText(s, f[2]),
          mv |-> FieldText(s, f[3]), cb |-> FieldText(s, f[4])]

\* r'([\d,]+\.[\d]+)\s+\$?([\d,]+\.[\d]+)\s+\$?([\d,]+\.[\d]+)\s+\$?([\d,]+\.[\d]+|not applicable)'
\* matched at s[i]: the four fields
FidNumsAt(s, i) == NumsRecord(s, i, FieldsAt(s, i, 4))

\* _FID_NUMS_LINE.search(s): the leftmost match
FidNumsSearch(s) ==
    LET starts == {i \in 1..Len(s) : FidNumsAt(s, i).ok}
    IN  IF starts = {} THEN NO_NUMS ELSE FidNumsAt(s, Min(starts))

NO_INLINE == [ok |-> FALSE, desc |-> <<>>, symbol |-> <<>>, qty |-> <<>>, price |-> <<>>,
              mv |-> <<>>, cb |-> <<>>]

\* the positions p at which r'\(SYMBOL\)\s+' and the four fields follow a
\* description s[1..p-1] of at least one character
FidInlineAt(s, p) ==
    /\ p >= 2
    /\ SymEndAt(s, p) > 0
    /\ BlankRunEnd(s, SymEndAt(s, p) + 1) > SymEndAt(s, p)
    /\ FidNumsAt(s, BlankRunEnd(s, SymEndAt(s, p) + 1) + 1).ok

\* the match whose "(" is s[p] and whose fields are n
InlineRecord(s, p, q, n) ==
    [ok |-> TRUE, desc |-> SubSeq(s, 1, p - 1), symbol |-> SubSeq(s, p + 1, q - 1),
     qty |-> n.qty, price |-> n.price, mv |-> n.mv, cb |-> n.cb]

InlineRecordAt(s, p) ==
    InlineRecord(s, p, SymEndAt(s, p), FidNumsAt(s, BlankRunEnd(s, SymEndAt(s, p) + 1) + 1))

\* _FID_SYM_INLINE.match(s): (.+?) is lazy, the first position wins
FidSymInlineMatch(s) ==
    IF \E p \in 2..Len(s) : FidInlineAt(s, p)
    THEN InlineRecordAt(s, Min({p \in 2..Len(s) : FidInlineAt(s, p)}))
    ELSE NO_INLINE

NO_SYM == [ok |-> FALSE, symbol |-> <<>>, end |-> 0]

\* _FID_SYM_ANY.search(s): the leftmost match; end is m.end()
FidSymAnySearch(s) ==
    LET ps == {p \in 1..Len(s) : SymEndAt(s, p) > 0}
    IN  IF ps = {} THEN NO_SYM
        ELSE LET p == Min(ps)
             IN  [ok |-> TRUE, symbol |-> SubSeq(s, p + 1, SymEndAt(s, p) - 1),
                  end |-> SymEndAt(s, p)]

\* len(re.findall(r'[\d,]+\.[\d]+', s[i-1:])): the matches are taken from left
\* to right and do not overlap
RECURSIVE CountNums(_, _)
CountNums(s, i) ==
    IF i > Len(s) THEN 0
    ELSE IF NumEndAt(s, i) > 0 THEN 1 + CountNums(s, NumEndAt(s, i) + 1)
    ELSE CountNums(s, i + 1)

-----------------------------------------------------------------------------
(* parse_fidelity_pdf: the document scan                                  *)

\* lines of a Fidelity statement, as full_text.splitlines() gives them
FL_SYM == <<"V","A","N","G","U","A","R","D"," ","T","O","T","A","L"," ","S","T","O","C","K"," ","(","V","T","S","A","X",")">>
FL_NUMS == <<"1","2","0",".","0","0","0"," ","8","5",".","3","2"," ","1","0","2","3","8",".","4","0"," ","9","5","0","0",".","0","0">>
FL_DESC_NUMS == <<"Z","E","R","O"," ","T","O","T","A","L"," ","M","K","T"," ","1","0",".","0","0","0"," ","$","1","5",".","0","0"," ","$","1","5","0",".","0","0"," ","n","o","t"," ","a","p","p","l","i","c","a","b","l","e">>
FL_INLINE == <<"A","P","P","L","E"," ","I","N","C"," ","(","A","A","P","L",")"," ","1","0",".","0","0","0"," ","$","1","5","0",".","0","0"," ","$","1",",","5","0","0",".","0","0"," ","$","1",",","2","0","0",".","0","0">>
FL_INLINE_ETF == <<"I","S","H","A","R","E","S"," ","C","O","R","E"," ","(","E","T","F",")"," ","5",".","0","0","0"," ","2","0",".","0","0"," ","1","0","0",".","0","0"," ","9","0",".","0","0">>
FL_SYM_IRA == <<"R","O","T","H"," ","(","I","R","A",")">>
FL_SYM_SEC_VOO == <<"U","S"," ","(","S","E","C",")"," ","(","V","O","O",")">>
FL_INLINE_ZERO == <<"D","E","A","D"," ","C","O"," ","(","X","Y","Z",")"," ","5",".","0","0","0"," ","0",".","0","0"," ","0",".","0","0"," ","5","0",".","0","0">>
FL_NUMS_ZERO == <<"3",".","0","0","0"," ","0",".","0","0"," ","0",".","0","0"," ","1","0",".","0","0">>
FL_MUTUAL == <<"M","u","t","u","a","l"," ","F","u","n","d","s">>
FL_TOTAL == <<"T","o","t","a","l"," ","(","V","O","O",")">>
FL_SYM_ALONE == <<" ","(","F","Z","R","O","X",")">>
FL_PLANS == <<"S","t","o","c","k"," ","P","l","a","n","s">>
FL_OWNER == <<"J","O","H","N"," ","D","O","E"," ","-"," ","R","O","L","L","O","V","E","R"," ","I","R","A">>
FL_SYM_3NUMS == <<"(","V","O","O",")"," ","5",".","0","0","0"," ","2","0",".","0","0"," ","1","0","0",".","0","0">>
FL_SHORT_NUMS == <<"A","B"," ","7",".","0","0","0"," ","3",".","0","0"," ","2","1",".","0","0"," ","2","0",".","0","0">>

FidLines ==
    {FL_SYM, FL_NUMS, FL_DESC_NUMS, FL_INLINE,
     FL_INLINE_ETF, FL_SYM_IRA, FL_SYM_SEC_VOO, FL_INLINE_ZERO,
     FL_NUMS_ZERO, FL_MUTUAL, FL_TOTAL, FL_SYM_ALONE,
     FL_PLANS, FL_OWNER, FL_SYM_3NUMS, FL_SHORT_NUMS}

\* most lines of a document
MaxFidLines == 3

\* the lines of the longer documents: two lines of numbers, a line without
\* numbers and a line with a symbol alone
LongLines == {FL_NUMS, FL_NUMS_ZERO, FL_MUTUAL, FL_SYM_ALONE}

\* most lines of a longer document
MaxLongLines == 6

FidDocuments ==
    UNION {[1..n -> FidLines] : n \in 0..MaxFidLines}
    \cup UNION {[1..n -> LongLines] : n \in (MaxFidLines + 1)..MaxLongLines}

\* needle in full_text, for a needle without line break
InText(lines, needle) == \E k \in 1..Len(lines) : Contains(lines[k], needle)

\* end of the longest run of [A-Z] characters starting at s[i]
RECURSIVE UpperRunEnd(_, _)
UpperRunEnd(s, i) ==
    IF i \in 1..Len(s) /\ s[i] \in Upper THEN UpperRunEnd(s, i + 1) ELSE i - 1

S_ROLLOVER_IRA  == <<"R","O","L","L","O","V","E","R"," ","I","R","A">>
S_BROKERAGELINK == <<"B","R","O","K","E","R","A","G","E","L","I","N","K">>
S_NON_PROTOTYPE == <<"N","O","N","-","P","R","O","T","O","T","Y","P","E">>
S_INDIVIDUAL    == <<"I","N","D","I","V","I","D","U","A","L">>

\* r'([A-Z]+ [A-Z]+)\s*[-]\s*ROLLOVER IRA' matched at s[i], within one line:
\* the end of group 1, 0 when there is no match
OwnerEndAt(s, i) ==
    LET a == UpperRunEnd(s, i)
        b == UpperRunEnd(s, a + 2)
        c == BlankRunEnd(s, b + 1)
        d == BlankRunEnd(s, c + 2)
    IN  IF /\ a >= i /\ At(s, a + 1, " ") /\ b >= a + 2
           /\ At(s, c + 1, "-")
           /\ SubSeq(s, d + 1, d + Len(S_ROLLOVER_IRA)) = S_ROLLOVER_IRA
           /\ d + Len(S_ROLLOVER_IRA) <= Len(s)
        THEN b ELSE 0

\* str.title() of upper-case words: the first letter of a word stays, the
\* others are lowered
TitleOf(s) ==
    [k \in 1..Len(s) |-> IF k = 1 \/ s[k - 1] \notin Upper THEN s[k] ELSE LowerOf(s[k])]

\* the owner named before "ROLLOVER IRA", <<>> when the search fails
RECURSIVE OwnerOf(_)
OwnerOf(lines) ==
    IF lines = <<>> THEN <<>>
    ELSE LET s  == lines[1]
             ps == {i \in 1..Len(s) : OwnerEndAt(s, i) > 0}
         IN  IF ps = {} THEN OwnerOf(Tail(lines))
             ELSE SubSeq(s, Min(ps), OwnerEndAt(s, Min(ps)))

COMPANIES == <<<<"F","A","C","E","B","O","O","K">>, <<"M","E","T","A">>, <<"G","O","O","G","L","E">>, <<"A","M","A","Z","O","N">>, <<"A","P","P","L","E">>, <<"M","I","C","R","O","S","O","F","T">>>>

\* the companies found at position i of line s, by their place in the alternation
CompaniesAt(s, i) ==
    {c \in 1..Len(COMPANIES) : SubSeq(s, i, i + Len(COMPANIES[c]) - 1) = COMPANIES[c]
                               /\ i + Len(COMPANIES[c]) - 1 <= Len(s)}

\* re.search(r'(FACEBOOK|META|...)', text): leftmost position, first alternative
RECURSIVE CompanyOf(_)
CompanyOf(lines) ==
    IF lines = <<>> THEN <<>>
    ELSE LET s  == lines[1]
             ps == {i \in 1..Len(s) : CompaniesAt(s, i) # {}}
         IN  IF ps = {} THEN CompanyOf(Tail(lines))
             ELSE COMPANIES[Min(CompaniesAt(s, Min(ps)))]

LBL_FIDELITY   == <<"F","i","d","e","l","i","t","y">>
LBL_INDIVIDUAL == <<"F","i","d","e","l","i","t","y"," ","I","n","d","i","v","i","d","u","a","l">>
LBL_IRA        == <<"F","i","d","e","l","i","t","y"," ","I","R","A"," ","(">>
LBL_401K       == <<"F","i","d","e","l","i","t","y"," ","4","0","1","k"," ","(">>
LBL_ROLLOVER   == <<"R","o","l","l","o","v","e","r">>
LBL_BLINK      == <<"B","r","o","k","e","r","a","g","e","L","i","n","k">>

_fidelity_account_name(lines) ==
    IF InText(lines, S_ROLLOVER_IRA)
    THEN LBL_IRA \o (IF OwnerOf(lines) # <<>> THEN TitleOf(OwnerOf(lines)) ELSE LBL_ROLLOVER)
         \o <<")">>
    ELSE IF InText(lines, S_BROKERAGELINK) \/ InText(lines, S_NON_PROTOTYPE)
    THEN LBL_401K \o (IF CompanyOf(lines) # <<>> THEN TitleOf(CompanyOf(lines)) ELSE LBL_BLINK)
         \o <<")">>
    ELSE IF InText(lines, S_INDIVIDUAL) THEN LBL_INDIVIDUAL
    ELSE LBL_FIDELITY

S_STOCK_PLANS     == <<"S","t","o","c","k"," ","P","l","a","n","s">>
S_COMMON_STOCK    == <<"C","o","m","m","o","n"," ","S","t","o","c","k">>
S_MUTUAL_FUNDS    == <<"M","u","t","u","a","l"," ","F","u","n","d","s">>
S_EXCHANGE_TRADED == <<"E","x","c","h","a","n","g","e"," ","T","r","a","d","e","d">>

\* (mutant) no statement is taken as stock-plan-only
StockPlanOnlyNever(lines) == FALSE

\* a stock-plan-only statement: parse_fidelity_pdf returns [] for it
StockPlanOnly(lines) ==
    /\ InText(lines, S_STOCK_PLANS)
    /\ ~InText(lines, S_COMMON_STOCK)
    /\ ~InText(lines, S_MUTUAL_FUNDS)
    /\ ~InText(lines, S_EXCHANGE_TRADED)

S_mutual_fund     == <<"m","u","t","u","a","l"," ","f","u","n","d">>
S_exchange_traded == <<"e","x","c","h","a","n","g","e"," ","t","r","a","d","e","d">>
S_equity_etp      == <<"e","q","u","i","t","y"," ","e","t","p">>
S_stocks          == <<"s","t","o","c","k","s">>
S_common_stock    == <<"c","o","m","m","o","n"," ","s","t","o","c","k">>
S_core_account    == <<"c","o","r","e"," ","a","c","c","o","u","n","t">>
S_money_market    == <<"m","o","n","e","y"," ","m","a","r","k","e","t">>

\* current_section after the line ls
SectionAfter(section, ls) ==
    LET ls_low == Lower(ls)
    IN  IF Contains(ls_low, S_mutual_fund) THEN "Mutual Fund"
        ELSE IF Contains(ls_low, S_exchange_traded) \/ Contains(ls_low, S_equity_etp) THEN "ETF"
        ELSE IF StartsWith(ls_low, S_stocks) \/ Contains(ls_low, S_common_stock) THEN "Stock"
        ELSE IF Contains(ls_low, S_core_account) \/ Contains(ls_low, S_money_market) THEN "Cash"
        ELSE section

\* the prefixes of header and footer lines ("Holdings\n" cannot start a line)
FID_SKIP ==
    {<<"T","o","t","a","l"," ">>,
     <<"P","r","i","c","e">>,
     <<"D","e","s","c","r","i","p","t","i","o","n">>,
     <<"A","l","l"," ","p","o","s","i","t","i","o","n","s">>,
     <<"C","o","p","y","r","i","g","h","t">>,
     <<"S","c","h","w","a","b">>,
     <<"F","i","d","e","l","i","t","y">>,
     <<"I","n","f","o","r","m","a","t","i","o","n"," ","A","b","o","u","t">>,
     <<"L","o","s","t"," ","o","r"," ","S","t","o","l","e","n">>,
     <<"A","d","d","i","t","i","o","n","a","l">>,
     <<"I","n","c","o","m","e"," ","S","u","m","m","a","r","y">>,
     <<"A","c","c","o","u","n","t"," ","S","u","m","m","a","r","y">>}

IsSkipLine(ls) == \E skip \in FID_SKIP : StartsWith(ls, skip)

\* per line of the vocabulary: line.strip() and the matches of the three patterns
FidStripped == [l \in FidLines |-> Strip(l)]
FidInlineM  == [l \in FidLines |-> FidSymInlineMatch(FidStripped[l])]
FidSymM     == [l \in FidLines |-> FidSymAnySearch(FidStripped[l])]
FidNumsM    == [l \in FidLines |-> FidNumsSearch(FidStripped[l])]
FidIsSkip   == [l \in FidLines |-> IsSkipLine(FidStripped[l])]
FidSection  == [l \in FidLines |->
                   [sec \in {"Stock", "Mutual Fund", "ETF", "Cash"} |->
                       SectionAfter(sec, FidStripped[l])]]
\* (mutant) the numbers after the symbol are not counted
FidAfterSymNotCounted == [l \in FidLines |-> 0]

FidAfterSym == [l \in FidLines |-> IF FidSymM[l].ok
                                   THEN CountNums(FidStripped[l], FidSymM[l].end + 1) ELSE 0]

\* s[:n]
Prefix(s, n) == SubSeq(s, 1, IF Len(s) < n THEN Len(s) ELSE n)

\* the Holding of case A
InlineHolding(m, label, section) ==
    [account      |-> label,
     symbol       |-> m.symbol,
     description  |-> Prefix(Strip(m.desc), 60),
     quantity     |-> CleanNum(m.qty),
     last_price   |-> CleanNum(m.price),
     market_value |-> CleanNum(m.mv),
     cost_basis   |-> CleanNum(m.cb),
     type         |-> section]

\* (mutant) the fourth field is taken as market value
DeferredHoldingCostAsValue(symbol, desc, nm, label, section) ==
    [account      |-> label,
     symbol       |-> symbol,
     description  |-> Prefix(desc, 60),
     quantity     |-> CleanNum(nm.qty),
     last_price   |-> CleanNum(nm.price),
     market_value |-> CleanNum(nm.cb),
     cost_basis   |-> CleanNum(nm.cb),
     type         |-> section]

\* the Holding of case B
DeferredHolding(symbol, desc, nm, label, section) ==
    [account      |-> label,
     symbol       |-> symbol,
     description  |-> Prefix(desc, 60),
     quantity     |-> CleanNum(nm.qty),
     last_price   |-> CleanNum(nm.price),
     market_value |-> CleanNum(nm.mv),
     cost_basis   |-> CleanNum(nm.cb),
     type         |-> section]

\* (mutant) every line above line i is looked at
LookbackWindowUnbounded(i) == 1..(i - 1)

\* the lines range(i - 1, max(i - 5, -1), -1) goes through, counted from 1
LookbackWindow(i) == {j \in 1..(i - 1) : j >= i - 4}

\* the lines of the lookback window in which _FID_NUMS_LINE is found
NumsLinesBefore(lines, i) == {j \in LookbackWindow(i) : FidNumsM[lines[j]].ok}

\* the first of them the loop meets: the nearest
Nearest(js) == CHOOSE x \in js : \A y \in js : y <= x

\* prev[:nm.start()].strip() or symbol
OwnDescription(prev, nm, symbol) ==
    IF Strip(SubSeq(prev, 1, nm.start - 1)) # <<>>
    THEN Strip(SubSeq(prev, 1, nm.start - 1)) ELSE symbol

\* desc, replaced by the line above line j when it is shorter than 3 characters
DescriptionAt(lines, j, desc) ==
    IF Len(desc) < 3 /\ j > 1 THEN FidStripped[lines[j - 1]] ELSE desc

\* the Holdings case B appends for the numbers of line j
DeferredFrom(lines, j, nm, symbol, label, section) ==
    IF CleanNum(nm.mv) > 0
    THEN <<DeferredHolding(symbol,
                           DescriptionAt(lines, j,
                                         OwnDescription(FidStripped[lines[j]], nm, symbol)),
                           nm, label, section)>>
    ELSE <<>>

DeferredAt(lines, j, symbol, label, section) ==
    DeferredFrom(lines, j, FidNumsM[lines[j]], symbol, label, section)

\* case B for the symbol of line i: the Holdings to append
DeferredHoldings(lines, i, symbol, label, section) ==
    IF NumsLinesBefore(lines, i) = {} THEN <<>>
    ELSE DeferredAt(lines, Nearest(NumsLinesBefore(lines, i)), symbol, label, section)

\* the body of the line loop for line i: [section, holdings]
FidScanLine(lines, i, section, hs, label) ==
    LET ls  == FidStripped[lines[i]]
        sec == FidSection[lines[i]][section]
        m   == FidInlineM[lines[i]]
        ms  == FidSymM[lines[i]]
        new == IF FidIsSkip[lines[i]] THEN <<>>
               ELSE IF m.ok
               THEN IF ~IsNonTicker(m.symbol) /\ CleanNum(m.mv) > 0
                    THEN <<InlineHolding(m, label, sec)>> ELSE <<>>
               ELSE IF ms.ok
               THEN IF IsNonTicker(ms.symbol) THEN <<>>
                    ELSE IF FidAfterSym[lines[i]] >= 3 THEN <<>>
                    ELSE DeferredHoldings(lines, i, ms.symbol, label, sec)
               ELSE <<>>
    IN  [section |-> sec, holdings |-> hs \o new]

\* with pdfplumber.open(path): full_text is read; the label is taken from it
\* and a stock-plan-only statement is returned empty
FidOpen ==
    /\ fid_pc = "open"
    /\ fid_label' = _fidelity_account_name(fid_lines)
    /\ fid_pc' = IF StockPlanOnly(fid_lines) THEN "done" ELSE "scanning"
    /\ UNCHANGED <<fid_lines, fid_i, current_section, fid_holdings>>

\* for i, line in enumerate(lines)
FidReadLine ==
    /\ fid_pc = "scanning"
    /\ fid_i <= Len(fid_lines)
    /\ LET r == FidScanLine(fid_lines, fid_i, current_section, fid_holdings, fid_label)
       IN  /\ current_section' = r.section
           /\ fid_holdings' = r.holdings
    /\ fid_i' = fid_i + 1
    /\ UNCHANGED <<fid_lines, fid_pc, fid_label>>

\* return holdings
FidReturn ==
    /\ fid_pc = "scanning"
    /\ fid_i > Len(fid_lines)
    /\ fid_pc' = "done"
    /\ UNCHANGED <<fid_lines, fid_i, fid_label, current_section, fid_holdings>>

\* parse_fidelity_pdf is called on a statement
FidStart ==
    /\ fid_lines \in FidDocuments
    /\ fid_pc = "open"
    /\ fid_i = 1
    /\ fid_label = <<>>
    /\ current_section = "Stock"
    /\ fid_holdings = <<>>

-----------------------------------------------------------------------------
(* load_file, scan_data_folders, active_holdings, calculate_summary, index *)

\* BROKER_FOLDERS, in the order of the dict
BROKERS == <<"Fidelity", "Schwab", "Morgan Stanley">>

BrokerSet == {BROKERS[i] : i \in 1..Len(BROKERS)}

\* broker.lower() as text
BrokerLower(broker) ==
    CASE broker = "Fidelity"       -> <<"f","i","d","e","l","i","t","y">>
      [] broker = "Schwab"         -> <<"s","c","h","w","a","b">>
      [] broker = "Morgan Stanley" -> <<"m","o","r","g","a","n"," ","s","t","a","n","l","e","y">>

\* the broker's name as account label
BrokerLabel(broker) ==
    CASE broker = "Fidelity"       -> <<"F","i","d","e","l","i","t","y">>
      [] broker = "Schwab"         -> SCHWAB
      [] broker = "Morgan Stanley" -> <<"M","o","r","g","a","n"," ","S","t","a","n","l","e","y">>

\* the statement files each broker folder can hold
ScanNames(broker) ==
    CASE broker = "Fidelity"       -> {F_FID_DEC, F_CSV}
      [] broker = "Schwab"         -> {F_STMT_JUN_111, F_STMT_SEP_111}
      [] broker = "Morgan Stanley" -> {F_MS_DEC}

\* one position as a parser reads it from a document (the account label is
\* added by the parser)
Row(sym, qty, price, mv, cb, type) ==
    [symbol |-> sym, description |-> sym, quantity |-> qty, last_price |-> price,
     market_value |-> mv, cost_basis |-> cb, type |-> type]

\* The content of a file, by what its parser makes of it: a document with
\* the position rows it holds, or a file the parser cannot read (an
\* exception is raised while it is opened or parsed).
BODY_CORRUPT == [kind |-> "corrupt", rows |-> <<>>]
BODY_TWO ==
    [kind |-> "doc",
     rows |-> << Row(<<"V","O","O">>, 20000, 5000000, 10000000, 8000000, "ETF"),
                 Row(<<"A","A","P","L">>, 100000, 1500000, 15000000, 0, "Stock") >>]
BODY_ONE ==
    [kind |-> "doc",
     rows |-> << Row(<<"I","B","M">>, 50000, 2000000, 10000000, 12000000, "Stock") >>]

Bodies == {BODY_CORRUPT, BODY_TWO, BODY_ONE}

\* most files all broker folders hold together
MaxScanFiles == 3

\* the account label a parser gives the rows of a document
AccountLabel(path, broker) ==
    IF broker = "Schwab" THEN SchwabLabel(path, BrokerLabel(broker))
    ELSE BrokerLabel(broker)

\* the Holdings a parser returns for a readable document
ParsedHoldings(path, broker, body) ==
    [i \in 1..Len(body.rows) |->
        [account      |-> AccountLabel(path, broker),
         symbol       |-> body.rows[i].symbol,
         description  |-> body.rows[i].description,
         quantity     |-> body.rows[i].quantity,
         last_price   |-> body.rows[i].last_price,
         market_value |-> body.rows[i].market_value,
         cost_basis   |-> body.rows[i].cost_basis,
         type         |-> body.rows[i].type]]

S_SCHWAB   == <<"s","c","h","w","a","b">>
S_FIDELITY == <<"f","i","d","e","l","i","t","y">>
S_MORGAN   == <<"m","o","r","g","a","n">>

\* load_file(path, broker) on a file with the given content:
\* [raised, result]
load_file(path, broker, body, pdf_support) ==
    LET ext    == Lower(SplitExt(path))
        b      == BrokerLower(broker)
        parsed == IF body.kind = "corrupt"
                  THEN [raised |-> TRUE, result |-> <<>>]
                  ELSE [raised |-> FALSE, result |-> ParsedHoldings(path, broker, body)]
        none   == [raised |-> FALSE, result |-> <<>>]
    IN  IF ext = EXT_CSV THEN parsed
        ELSE IF ext = EXT_PDF
        THEN IF ~pdf_support THEN none
             ELSE IF Contains(b, S_SCHWAB) \/ Contains(b, S_FIDELITY) \/ Contains(b, S_MORGAN)
             THEN parsed
             ELSE none
        ELSE none

\* the names of a listing, in order
NamesOf(listing) == [i \in 1..Len(listing) |-> listing[i].name]

\* the content of file name in a listing
BodyOf(listing, name) ==
    (CHOOSE e \in Range(listing) : e.name = name).body

\* (mutant) the percentage is computed without the test of the cost basis:
\* den = 0 stands for the division by zero
WithGainsUnguarded(h) ==
    [account       |-> h.account,
     symbol        |-> h.symbol,
     description   |-> h.description,
     quantity      |-> h.quantity,
     last_price    |-> h.last_price,
     market_value  |-> h.market_value,
     cost_basis    |-> h.cost_basis,
     type          |-> h.type,
     gain_loss     |-> h.market_value - h.cost_basis,
     gain_loss_pct |-> [num |-> h.market_value - h.cost_basis, den |-> h.cost_basis]]

\* h["gain_loss"] and h["gain_loss_pct"] added to a Holding; the percentage
\* is kept as the fraction num/den (times 100)
WithGains(h) ==
    [account       |-> h.account,
     symbol        |-> h.symbol,
     description   |-> h.description,
     quantity      |-> h.quantity,
     last_price    |-> h.last_price,
     market_value  |-> h.market_value,
     cost_basis    |-> h.cost_basis,
     type          |-> h.type,
     gain_loss     |-> h.market_value - h.cost_basis,
     gain_loss_pct |-> IF h.cost_basis > 0
                       THEN [num |-> h.market_value - h.cost_basis, den |-> h.cost_basis]
                       ELSE [num |-> 0, den |-> 1]]

\* x inserted into the list hs, sorted by market_value descending, behind
\* the records of equal value
RECURSIVE InsertByValue(_, _)
InsertByValue(hs, x) ==
    IF hs = <<>> THEN <<x>>
    ELSE IF hs[1].market_value >= x.market_value
    THEN <<hs[1]>> \o InsertByValue(Tail(hs), x)
    ELSE <<x>> \o hs

\* sorted(holdings, key=lambda x: x["market_value"], reverse=True): stable
RECURSIVE SortedByValue(_)
SortedByValue(hs) ==
    IF hs = <<>> THEN <<>>
    ELSE InsertByValue(SortedByValue(SubSeq(hs, 1, Len(hs) - 1)), hs[Len(hs)])

\* calculate_summary(holdings): the "holdings" entry of the summary
SummaryHoldings(hs) == SortedByValue([i \in 1..Len(hs) |-> WithGains(hs[i])])

\* (mutant) calculate_summary is handed the caller's records themselves:
\* they carry the derived fields afterwards
AfterSummaryInPlace(hs) == [i \in 1..Len(hs) |-> WithGains(hs[i])]

\* the caller's records after calculate_summary([dict(h) for h in holdings]):
\* the derived fields were added to the copies
AfterSummary(hs) == hs

\* (mutant) the exception leaves the file loop: the folder's remaining files are skipped
AfterErrorAbandon(idx, files) == Len(files) + 1

\* the position of the file loop after an exception was caught for file idx
AfterError(idx, files) == idx + 1

SAMPLE ==
    << [account |-> <<"F","i","d","e","l","i","t","y">>, symbol |-> <<"A","A","P","L">>,
        description |-> <<"A","p","p","l","e"," ","I","n","c">>,
        quantity |-> 500000, last_price |-> 2275200, market_value |-> 113760000,
        cost_basis |-> 85000000, type |-> "Stock"],
       [account |-> <<"F","i","d","e","l","i","t","y">>, symbol |-> <<"M","S","F","T">>,
        description |-> <<"M","i","c","r","o","s","o","f","t"," ","C","o","r","p">>,
        quantity |-> 300000, last_price |-> 4152600, market_value |-> 124578000,
        cost_basis |-> 92000000, type |-> "Stock"],
       [account |-> <<"F","i","d","e","l","i","t","y">>, symbol |-> <<"V","O","O">>,
        description |-> <<"V","a","n","g","u","a","r","d"," ","S","&","P"," ","5","0","0"," ","E","T","F">>,
        quantity |-> 1000000, last_price |-> 5011800, market_value |-> 501180000,
        cost_basis |-> 420000000, type |-> "ETF"],
       [account |-> <<"S","c","h","w","a","b">>, symbol |-> <<"V","T","I">>,
        description |-> <<"V","a","n","g","u","a","r","d"," ","T","o","t","a","l"," ","S","t","o","c","k"," ","M","k","t"," ","E","T","F">>,
        quantity |-> 1200000, last_price |-> 2365800, market_value |-> 283896000,
        cost_basis |-> 220000000, type |-> "ETF"],
       [account |-> <<"S","c","h","w","a","b">>, symbol |-> <<"M","E","T","A">>,
        description |-> <<"M","e","t","a"," ","P","l","a","t","f","o","r","m","s"," ","I","n","c">>,
        quantity |-> 1000000, last_price |-> 6600900, market_value |-> 660090000,
        cost_basis |-> 400000000, type |-> "Stock"],
       [account |-> <<"M","o","r","g","a","n"," ","S","t","a","n","l","e","y">>, symbol |-> <<"I","B","M">>,
        description |-> <<"I","n","t","l"," ","B","u","s","i","n","e","s","s"," ","M","a","c","h","i","n","e","s">>,
        quantity |-> 980000, last_price |-> 2962100, market_value |-> 290290000,
        cost_basis |-> 0, type |-> "Stock"] >>

\* a call of index() that has not happened
NO_RUN == [holdings |-> <<>>, summary |-> <<>>]

TotalFiles == Len(dirs["Fidelity"]) + Len(dirs["Schwab"]) + Len(dirs["Morgan Stanley"])

\* upload(): the file is saved into the broker's folder; a file of that
\* name is overwritten
ScanUpload(broker, name, body, pos) ==
    /\ scan_pc = "idle"
    /\ Lower(SplitExt(name)) \in {EXT_CSV, EXT_PDF}
    /\ IF name \in Range(NamesOf(dirs[broker]))
       THEN /\ BodyOf(dirs[broker], name) # body
            /\ pos = 1
            /\ dirs' = [dirs EXCEPT ![broker] =
                           [i \in 1..Len(@) |->
                               IF @[i].name = name THEN [name |-> name, body |-> body]
                               ELSE @[i]]]
       ELSE /\ TotalFiles < MaxScanFiles
            /\ pos \in 1..(Len(dirs[broker]) + 1)
            /\ dirs' = [dirs EXCEPT ![broker] =
                           InsertAt(@, pos, [name |-> name, body |-> body])]
    /\ runs' = 0
    /\ prev_run' = NO_RUN
    /\ last_run' = NO_RUN
    /\ UNCHANGED <<PDF_SUPPORT, SAMPLE_HOLDINGS, scan_pc, scan_broker, scan_files,
                   scan_idx, scan_holdings, scan_errors>>

\* clear_broker(): the files of the broker's folder are removed
ScanClear(broker) ==
    /\ scan_pc = "idle"
    /\ dirs[broker] # <<>>
    /\ dirs' = [dirs EXCEPT ![broker] = SelectSeq(@, LAMBDA e : IsHidden(e.name))]
    /\ runs' = 0
    /\ prev_run' = NO_RUN
    /\ last_run' = NO_RUN
    /\ UNCHANGED <<PDF_SUPPORT, SAMPLE_HOLDINGS, scan_pc, scan_broker, scan_files,
                   scan_idx, scan_holdings, scan_errors>>

\* index() calls active_holdings(), which calls scan_data_folders(): holdings = []
ScanBegin ==
    /\ scan_pc = "idle"
    /\ scan_pc' = "folder"
    /\ scan_broker' = 1
    /\ scan_holdings' = <<>>
    /\ scan_errors' = <<>>
    /\ scan_files' = <<>>
    /\ scan_idx' = 1
    /\ UNCHANGED <<dirs, PDF_SUPPORT, SAMPLE_HOLDINGS, runs, prev_run, last_run>>

\* for broker, folder in BROKER_FOLDERS.items(): files_to_load = _most_recent_files(folder)
ScanFolder ==
    /\ scan_pc = "folder"
    /\ scan_broker <= Len(BROKERS)
    /\ scan_files' = _most_recent_files(NamesOf(dirs[BROKERS[scan_broker]]))
    /\ scan_idx' = 1
    /\ scan_pc' = "files"
    /\ UNCHANGED <<dirs, PDF_SUPPORT, SAMPLE_HOLDINGS, scan_broker, scan_holdings,
                   scan_errors, runs, prev_run, last_run>>

\* for fname in files_to_load: try: holdings.extend(load_file(...)) except: print
ScanLoadFile ==
    /\ scan_pc = "files"
    /\ scan_idx <= Len(scan_files)
    /\ LET broker == BROKERS[scan_broker]
           fname  == scan_files[scan_idx]
           r      == load_file(fname, broker, BodyOf(dirs[broker], fname), PDF_SUPPORT)
       IN  IF r.raised
           THEN /\ scan_errors' = Append(scan_errors, fname)
                /\ scan_idx' = AfterError(scan_idx, scan_files)
                /\ UNCHANGED scan_holdings
           ELSE /\ scan_holdings' = scan_holdings \o r.result
                /\ scan_idx' = scan_idx + 1
                /\ UNCHANGED scan_errors
    /\ UNCHANGED <<dirs, PDF_SUPPORT, SAMPLE_HOLDINGS, scan_pc, scan_broker, scan_files,
                   runs, prev_run, last_run>>

\* the file loop of a broker ends: the next broker
ScanNextBroker ==
    /\ scan_pc = "files"
    /\ scan_idx > Len(scan_files)
    /\ scan_broker' = scan_broker + 1
    /\ scan_pc' = "folder"
    /\ UNCHANGED <<dirs, PDF_SUPPORT, SAMPLE_HOLDINGS, scan_files, scan_idx,
                   scan_holdings, scan_errors, runs, prev_run, last_run>>

\* scan_data_folders() returns holdings; active_holdings() returns it, or
\* SAMPLE_HOLDINGS when it is empty; index() computes the summary of copies;
\* the locals of the call are gone
ScanReturn ==
    /\ scan_pc = "folder"
    /\ scan_broker > Len(BROKERS)
    /\ LET data  == scan_holdings
           shown == IF data # <<>> THEN data ELSE SAMPLE_HOLDINGS
       IN  /\ last_run' = [holdings |-> shown, summary |-> SummaryHoldings(shown)]
           /\ SAMPLE_HOLDINGS' = IF data # <<>> THEN SAMPLE_HOLDINGS
                                 ELSE AfterSummary(SAMPLE_HOLDINGS)
    /\ prev_run' = last_run
    /\ runs' = IF runs < 2 THEN runs + 1 ELSE 2
    /\ scan_pc' = "idle"
    /\ scan_broker' = 1
    /\ scan_files' = <<>>
    /\ scan_idx' = 1
    /\ scan_holdings' = <<>>
    /\ scan_errors' = <<>>
    /\ UNCHANGED <<dirs, PDF_SUPPORT>>

\* the application has been imported: empty folders, nothing scanned
ScanStart ==
    /\ dirs = [b \in BrokerSet |-> <<>>]
    /\ PDF_SUPPORT \in BOOLEAN
    /\ SAMPLE_HOLDINGS = SAMPLE
    /\ scan_pc = "idle"
    /\ scan_broker = 1
    /\ scan_files = <<>>
    /\ scan_idx = 1
    /\ scan_holdings = <<>>
    /\ scan_errors = <<>>
    /\ runs = 0
    /\ prev_run = NO_RUN
    /\ last_run = NO_RUN

-----------------------------------------------------------------------------
(* calculate_summary(holdings), called on one list of Holdings             *)

\* n / d rounded to the nearest integer, a tie to the even one (d > 0).
\* round() decides a tie by the binary value of the float; the amounts of
\* SummaryPool give no tie.
RoundedQuotient(n, d) ==
    IF 2 * (n % d) > d \/ (2 * (n % d) = d /\ (n \div d) % 2 = 1)
    THEN (n \div d) + 1
    ELSE n \div d

\* round(v, 2) of an amount v in units of 10^-FracDigits
Round2(v) == RoundedQuotient(v, Pow10(FracDigits - 2)) * Pow10(FracDigits - 2)

\* round(num / den * 100, 2), in units of 10^-FracDigits (den > 0)
RoundedPct(num, den) ==
    ((num * 100) \div den) * Pow10(FracDigits)
    + RoundedQuotient(((num * 100) % den) * 100, den) * Pow10(FracDigits - 2)

\* (mutant) the holdings without a cost basis are left out of the total
RECURSIVE TotalValueOfCosted(_)
TotalValueOfCosted(hs) ==
    IF hs = <<>> THEN 0
    ELSE (IF hs[1].cost_basis > 0 THEN hs[1].market_value ELSE 0)
         + TotalValueOfCosted(Tail(hs))

\* sum(h["market_value"] for h in holdings)
RECURSIVE TotalValue(_)
TotalValue(hs) ==
    IF hs = <<>> THEN 0 ELSE hs[1].market_value + TotalValue(Tail(hs))

\* sum(h["cost_basis"] for h in holdings)
RECURSIVE TotalCost(_)
TotalCost(hs) ==
    IF hs = <<>> THEN 0 ELSE hs[1].cost_basis + TotalCost(Tail(hs))

\* the dict d, a sequence of entries [key, value] in insertion order, after
\* d[k] = d.get(k, 0) + v
Added(d, k, v) ==
    IF \E i \in 1..Len(d) : d[i].key = k
    THEN [i \in 1..Len(d) |->
             IF d[i].key = k THEN [key |-> k, value |-> d[i].value + v] ELSE d[i]]
    ELSE Append(d, [key |-> k, value |-> v])

\* accounts after the loop over the first n holdings
RECURSIVE AccountsUpTo(_, _)
AccountsUpTo(hs, n) ==
    IF n = 0 THEN <<>>
    ELSE Added(AccountsUpTo(hs, n - 1), hs[n].account, hs[n].market_value)

\* allocation after the loop over the first n holdings
RECURSIVE AllocationUpTo(_, _)
AllocationUpTo(hs, n) ==
    IF n = 0 THEN <<>>
    ELSE Added(AllocationUpTo(hs, n - 1), hs[n].type, hs[n].market_value)

\* entry x inserted into the entries es, sorted by value descending, behind
\* the entries of equal value
RECURSIVE InsertEntry(_, _)
InsertEntry(es, x) ==
    IF es = <<>> THEN <<x>>
    ELSE IF es[1].value >= x.value
    THEN <<es[1]>> \o InsertEntry(Tail(es), x)
    ELSE <<x>> \o es

\* (mutant) the items are left in insertion order
InInsertionOrder(d) == d

\* sorted(d.items(), key=lambda x: -x[1]): stable
RECURSIVE SortedItems(_)
SortedItems(d) ==
    IF d = <<>> THEN <<>>
    ELSE InsertEntry(SortedItems(SubSeq(d, 1, Len(d) - 1)), d[Len(d)])

\* {k: round(v, 2) for k, v in sorted(d.items(), key=lambda x: -x[1])}
Breakdown(d) ==
    [i \in 1..Len(SortedItems(d)) |->
        [key |-> SortedItems(d)[i].key, value |-> Round2(SortedItems(d)[i].value)]]

S_CASH == <<"C","A","S","H">>

\* the files counted by file_count: the names without a leading dot in the
\* broker folders
FileCount(listings) ==
    LET Visible(b) == Cardinality({i \in 1..Len(listings[b]) : listings[b][i].name[1] # "."})
    IN  Visible("Fidelity") + Visible("Schwab") + Visible("Morgan Stanley")

\* the holdings after the first loop of calculate_summary
GainsAdded(hs) == [i \in 1..Len(hs) |-> WithGains(hs[i])]

\* calculate_summary(holdings): the summary returned
calculate_summary(hs, listings) ==
    [total_value    |-> Round2(TotalValue(hs)),
     total_cost     |-> Round2(TotalCost(hs)),
     total_gain     |-> Round2(TotalValue(hs) - TotalCost(hs)),
     total_gain_pct |-> IF TotalCost(hs) > 0
                        THEN RoundedPct(TotalValue(hs) - TotalCost(hs), TotalCost(hs))
                        ELSE 0,
     num_positions  |-> Cardinality({i \in 1..Len(hs) : hs[i].symbol # S_CASH}),
     accounts       |-> Breakdown(AccountsUpTo(hs, Len(hs))),
     allocation     |-> Breakdown(AllocationUpTo(hs, Len(hs))),
     holdings       |-> SortedByValue(GainsAdded(hs)),
     file_count     |-> FileCount(listings)]

\* a Holding as a parser emits it
Holding(account, symbol, type, mv, cb) ==
    [account |-> account, symbol |-> symbol, description |-> symbol,
     quantity |-> Pow10(FracDigits), last_price |-> mv,
     market_value |-> mv, cost_basis |-> cb, type |-> type]

\* the Holdings the lists passed to calculate_summary are made of
SummaryPool ==
    { Holding(BrokerLabel("Schwab"), <<"I","B","M">>, "Stock", 1000000, 800000),
      Holding(BrokerLabel("Fidelity"), <<"V","O","O">>, "ETF", 500000, 0),
      Holding(BrokerLabel("Schwab"), S_CASH, "Cash", 500000, 500000),
      Holding(BrokerLabel("Fidelity"), <<"A","A","P","L">>, "Stock", 750000, 900000),
      Holding(BrokerLabel("Morgan Stanley"), <<"V","T","I">>, "ETF", 300013, 200000),
      Holding(BrokerLabel("Morgan Stanley"), <<"X","Y","Z">>, "Stock", 0, 100000) }

\* longest list passed to calculate_summary
MaxHoldings == 3

HoldingLists == UNION {[1..n -> SummaryPool] : n \in 0..MaxHoldings}

NO_SUMMARY == [total_value |-> 0]

SummaryStart ==
    /\ sum_pc = "call"
    /\ sum_holdings \in HoldingLists
    /\ summary = NO_SUMMARY

\* calculate_summary(holdings) is called on the caller's list and returns;
\* the records of the list carry the derived fields afterwards
SummaryCall ==
    /\ sum_pc = "call"
    /\ summary' = calculate_summary(sum_holdings, dirs)
    /\ sum_holdings' = GainsAdded(sum_holdings)
    /\ sum_pc' = "returned"

-----------------------------------------------------------------------------
(* The job scan of src/job_agent: run_scan with the filter of filter.py,   *)
(* the dedup store of db.py and send_digest of notifier.py.  Scans run one *)
(* after the other on one store.                                           *)

\* the search block of companies.yaml
SEARCH ==
    [keywords         |-> {<<"T","P","M">>},
     exclude_keywords |-> {<<"i","n","t","e","r","n">>},
     locations        |-> {<<"S","e","a","t","t","l","e">>}]

\* a normalized job dict as a fetcher returns it
Posting(id, title, location) == [id |-> id, title |-> title, location |-> location]

\* the postings of the job boards, in the order the fetchers return them
BOARD ==
    << Posting("greenhouse::openai::1", <<"S","e","n","i","o","r"," ","T","P","M">>, <<>>),
       Posting("greenhouse::openai::2", <<"T","P","M"," ","I","n","t","e","r","n">>, <<"R","e","m","o","t","e">>),
       Posting("lever::mistral::3", <<"S","t","a","f","f"," ","T","P","M">>, <<"P","a","r","i","s">>),
       Posting("lever::mistral::4", <<"L","e","a","d"," ","T","p","m">>, <<"R","E","M","O","T","E"," ","U","S">>),
       Posting("workday::nvidia::5", <<"E","n","g","i","n","e","e","r">>, <<"S","e","a","t","t","l","e"," ","W","A">>) >>

Postings == Range(BOARD)

\* matches(job) of build_filter
Matches(job, search) ==
    /\ \E kw \in search.keywords : Contains(Lower(job.title), Lower(kw))
    /\ ~\E ex \in search.exclude_keywords : Contains(Lower(job.title), Lower(ex))
    /\ \/ Strip(Lower(job.location)) = <<>>
       \/ Contains(Strip(Lower(job.location)), <<"r","e","m","o","t","e">>)
       \/ \E loc \in search.locations : Contains(Strip(Lower(job.location)), Lower(loc))

\* the filter's verdict on each posting
Matching == [p \in Postings |-> Matches(p, SEARCH)]

\* filter_jobs(jobs, search)
filter_jobs(jobs) == SelectSeq(jobs, LAMBDA j : Matching[j])

\* is_seen(job_id): a row of seen_jobs has the id
is_seen(job_id, store) == job_id \in store

\* [j for j in filtered if not is_seen(j["id"], db_path)]
Unseen(jobs, store) == SelectSeq(jobs, LAMBDA j : ~is_seen(j.id, store))

IdsOf(jobs) == {jobs[k].id : k \in 1..Len(jobs)}

\* (mutant) nothing is inserted
MarkNothing(store, jobs) == store

\* mark_seen_batch(jobs): INSERT OR IGNORE of every job id
mark_seen_batch(store, jobs) == store \cup IdsOf(jobs)

\* (mutant) the dry run records the new jobs as well
MarkedByDryRun(store, jobs) == store \cup IdsOf(jobs)

\* the store after the dry-run branch of run_scan: no write
AfterDryRun(store, jobs) == store

\* most scans run
MaxScans == 3

\* the postings of positions ps of the board, in board order
Listed(ps) == SelectSeq(BOARD, LAMBDA p : \E k \in ps : BOARD[k] = p)

\* what the fetchers can return in one scan: the postings online at the time
FetchedLists == {Listed(ps) : ps \in SUBSET (1..Len(BOARD))}

AllIds == {p.id : p \in Postings}

\* the payload of results.json
ResultsPayload(matched, new_ids, errs, total) ==
    [total_fetched |-> total, total_matched |-> Len(matched),
     new_count |-> Cardinality(new_ids), errors |-> errs,
     is_new |-> [k \in 1..Len(matched) |-> matched[k].id \in new_ids]]

NO_PAYLOAD == [total_fetched |-> 0, total_matched |-> 0, new_count |-> 0,
               errors |-> <<>>, is_new |-> <<>>]

NO_RESULT == [dry_run |-> FALSE, total_fetched |-> 0, total_filtered |-> 0,
              new_jobs |-> 0, errors |-> <<>>, jobs |-> <<>>]

JobStart ==
    /\ seen_jobs = {}
    /\ job_pc = "idle"
    /\ dry_run = FALSE
    /\ total_fetched = 0
    /\ filtered = <<>>
    /\ new_jobs = <<>>
    /\ job_errors = <<>>
    /\ results_json = NO_PAYLOAD
    /\ outbox = <<>>
    /\ reported = [id \in AllIds |-> 0]
    /\ job_result = NO_RESULT
    /\ scans = 0

\* run_scan(dry_run=dry) from its start to the list of new jobs: the
\* fetchers return all_jobs, one of them having failed or not, the jobs are
\* filtered and looked up in the store
JobFetch(dry, all_jobs, fetch_failed) ==
    /\ job_pc = "idle"
    /\ scans < MaxScans
    /\ dry_run' = dry
    /\ total_fetched' = Len(all_jobs)
    /\ job_errors' = IF fetch_failed THEN <<"fetch">> ELSE <<>>
    /\ filtered' = filter_jobs(all_jobs)
    /\ new_jobs' = Unseen(filter_jobs(all_jobs), seen_jobs)
    /\ job_pc' = "checked"
    /\ scans' = scans + 1
    /\ UNCHANGED <<seen_jobs, results_json, outbox, reported, job_result>>

\* the dry-run branch: results.json is written and the scan returns (its
\* locals are gone)
JobDryRunReturn ==
    /\ job_pc = "checked"
    /\ dry_run
    /\ seen_jobs' = AfterDryRun(seen_jobs, new_jobs)
    /\ results_json' = ResultsPayload(filtered, IdsOf(new_jobs), job_errors, total_fetched)
    /\ job_result' = [dry_run |-> TRUE, total_fetched |-> total_fetched,
                      total_filtered |-> Len(filtered), new_jobs |-> Len(new_jobs),
                      errors |-> job_errors, jobs |-> new_jobs]
    /\ job_pc' = "idle"
    /\ dry_run' = FALSE /\ total_fetched' = 0 /\ filtered' = <<>>
    /\ new_jobs' = <<>> /\ job_errors' = <<>>
    /\ UNCHANGED <<outbox, reported, scans>>

\* mark_seen_batch(new_jobs) when there are new jobs, then _write_results
JobMarkSeen ==
    /\ job_pc = "checked"
    /\ ~dry_run
    /\ seen_jobs' = IF new_jobs # <<>> THEN mark_seen_batch(seen_jobs, new_jobs)
                    ELSE seen_jobs
    /\ results_json' = ResultsPayload(filtered, IdsOf(new_jobs), job_errors, total_fetched)
    /\ reported' = [id \in AllIds |->
                       IF id \in IdsOf(new_jobs) THEN reported[id] + 1 ELSE reported[id]]
    /\ job_pc' = "marked"
    /\ UNCHANGED <<dry_run, total_fetched, filtered, new_jobs, job_errors, outbox,
                   job_result, scans>>

\* (mutant) a failed digest takes the new jobs out of the store again
RolledBackOnFailure(store, jobs, smtp_ok) ==
    IF smtp_ok THEN store ELSE store \ IdsOf(jobs)

\* the store after send_digest and its exception handler: neither writes to it
AfterDigest(store, jobs, smtp_ok) == store

\* send_digest(new_jobs), which sends nothing for an empty list and may
\* raise; the exception is recorded and the scan returns
JobSendDigest(smtp_ok) ==
    /\ job_pc = "marked"
    /\ new_jobs = <<>> => smtp_ok
    /\ outbox' = IF new_jobs # <<>> /\ smtp_ok THEN Append(outbox, new_jobs) ELSE outbox
    /\ job_result' = [dry_run |-> FALSE, total_fetched |-> total_fetched,
                      total_filtered |-> Len(filtered), new_jobs |-> Len(new_jobs),
                      errors |-> IF smtp_ok THEN job_errors
                                 ELSE Append(job_errors, "Email failed"),
                      jobs |-> <<>>]
    /\ job_pc' = "idle"
    /\ dry_run' = FALSE /\ total_fetched' = 0 /\ filtered' = <<>>
    /\ new_jobs' = <<>> /\ job_errors' = <<>>
    /\ seen_jobs' = AfterDigest(seen_jobs, new_jobs, smtp_ok)
    /\ UNCHANGED <<results_json, reported, scans>>

-----------------------------------------------------------------------------
(* Specifications.  Each one runs one part of the program; the variables   *)
(* of the other parts rest.                                                *)

SelRest ==
    /\ folder = <<>>
    /\ sel_pc = "idle"
    /\ files_to_load = <<>>

SchRest ==
    /\ sch_path = <<>>
    /\ sch_pc = "done"
    /\ sch_page = 0
    /\ sch_read = <<>>
    /\ in_positions = FALSE
    /\ current_type = "Stock"
    /\ cash_val = 0
    /\ holdings = <<>>

ScanRest ==
    /\ dirs = [b \in BrokerSet |-> <<>>]
    /\ PDF_SUPPORT = TRUE
    /\ SAMPLE_HOLDINGS = SAMPLE
    /\ scan_pc = "idle"
    /\ scan_broker = 1
    /\ scan_files = <<>>
    /\ scan_idx = 1
    /\ scan_holdings = <<>>
    /\ scan_errors = <<>>
    /\ runs = 0
    /\ prev_run = NO_RUN
    /\ last_run = NO_RUN

FidRest ==
    /\ fid_lines = <<>>
    /\ fid_pc = "done"
    /\ fid_i = 1
    /\ fid_label = <<>>
    /\ current_section = "Stock"
    /\ fid_holdings = <<>>

CleanRest ==
    /\ clean_val = NONE
    /\ clean_src = [rendered |-> FALSE, amount |-> 0]
    /\ clean_pc = "returned"
    /\ clean_ret = Finite(0)

SumRest ==
    /\ sum_holdings = <<>>
    /\ sum_pc = "returned"
    /\ summary = NO_SUMMARY

ExtRest ==
    /\ ext_fname = <<>>
    /\ ext_pc = "returned"
    /\ ext_ret = NO_PAIR

JobRest ==
    /\ seen_jobs = {}
    /\ job_pc = "idle"
    /\ dry_run = FALSE
    /\ total_fetched = 0
    /\ filtered = <<>>
    /\ new_jobs = <<>>
    /\ job_errors = <<>>
    /\ results_json = NO_PAYLOAD
    /\ outbox = <<>>
    /\ reported = [id \in AllIds |-> 0]
    /\ job_result = NO_RESULT
    /\ scans = 0

SelectorInit == SelStart /\ SchRest /\ ScanRest /\ FidRest /\ CleanRest /\ SumRest /\ ExtRest /\ JobRest

SelectorNext ==
    \/ \E f \in FileNames : \E pos \in 1..(MaxFiles + 1) :
           Upload(f, pos) /\ UNCHANGED notSel
    \/ \E f \in FileNames : \E pos \in 1..(MaxFiles + 1) :
           DropFile(f, pos) /\ UNCHANGED notSel
    \/ ClearBroker /\ UNCHANGED notSel
    \/ SelectFiles /\ UNCHANGED notSel

SpecSelector == SelectorInit /\ [][SelectorNext]_vars

SchwabInit == SchStart /\ SelRest /\ ScanRest /\ FidRest /\ CleanRest /\ SumRest /\ ExtRest /\ JobRest

SchwabNext ==
    \/ SchwabNextPage /\ UNCHANGED notSch
    \/ \E rawline \in SchwabLines : SchwabReadLine(rawline) /\ UNCHANGED notSch
    \/ SchwabReturn /\ UNCHANGED notSch

SpecSchwab == SchwabInit /\ [][SchwabNext]_vars

ScanInit == ScanStart /\ SelRest /\ SchRest /\ FidRest /\ CleanRest /\ SumRest /\ ExtRest /\ JobRest

ScanNext ==
    \/ \E broker \in BrokerSet : \E name \in ScanNames(broker) : \E body \in Bodies :
           \E pos \in 1..(MaxScanFiles + 1) :
               ScanUpload(broker, name, body, pos) /\ UNCHANGED notScan
    \/ \E broker \in BrokerSet : ScanClear(broker) /\ UNCHANGED notScan
    \/ ScanBegin /\ UNCHANGED notScan
    \/ ScanFolder /\ UNCHANGED notScan
    \/ ScanLoadFile /\ UNCHANGED notScan
    \/ ScanNextBroker /\ UNCHANGED notScan
    \/ ScanReturn /\ UNCHANGED notScan

SpecScan == ScanInit /\ [][ScanNext]_vars

FidelityInit == FidStart /\ SelRest /\ SchRest /\ ScanRest /\ CleanRest /\ SumRest /\ ExtRest /\ JobRest

FidelityNext ==
    \/ FidOpen /\ UNCHANGED notFid
    \/ FidReadLine /\ UNCHANGED notFid
    \/ FidReturn /\ UNCHANGED notFid

SpecFidelity == FidelityInit /\ [][FidelityNext]_vars

\* one statement is parsed, by the Schwab parser or by the Fidelity parser
ParsersInit ==
    /\ JobRest /\ ExtRest /\ SumRest /\ SelRest /\ ScanRest /\ CleanRest
    /\ \/ SchStart /\ FidRest
       \/ FidStart /\ SchRest

ParsersNext == SchwabNext \/ FidelityNext

SpecParsers == ParsersInit /\ [][ParsersNext]_vars

\* one call of _clean
CleanInit == CleanStart /\ SelRest /\ SchRest /\ ScanRest /\ FidRest /\ SumRest /\ ExtRest /\ JobRest

CleanNext == CleanCall /\ UNCHANGED notClean

SpecClean == CleanInit /\ [][CleanNext]_vars

\* one call of calculate_summary
SummaryInit == SummaryStart /\ SelRest /\ SchRest /\ ScanRest /\ FidRest /\ CleanRest /\ ExtRest /\ JobRest

SummaryNext == SummaryCall /\ UNCHANGED notSum

SpecSummary == SummaryInit /\ [][SummaryNext]_vars

\* one call of _extract_date_and_account
ExtractInit ==
    ExtractStart /\ SelRest /\ SchRest /\ ScanRest /\ FidRest /\ CleanRest /\ SumRest /\ JobRest

ExtractNext == ExtractCall /\ UNCHANGED notExt

SpecExtract == ExtractInit /\ [][ExtractNext]_vars

\* job scans, one after the other
JobsInit ==
    JobStart /\ SelRest /\ SchRest /\ ScanRest /\ FidRest /\ CleanRest /\ SumRest /\ ExtRest

JobsNext ==
    \/ \E dry \in BOOLEAN : \E all_jobs \in FetchedLists : \E fetch_failed \in BOOLEAN :
           JobFetch(dry, all_jobs, fetch_failed) /\ UNCHANGED notJob
    \/ JobDryRunReturn /\ UNCHANGED notJob
    \/ JobMarkSeen /\ UNCHANGED notJob
    \/ \E smtp_ok \in BOOLEAN : JobSendDigest(smtp_ok) /\ UNCHANGED notJob

SpecJobs == JobsInit /\ [][JobsNext]_vars

-----------------------------------------------------------------------------
(* Properties of the statement selector.                                   *)

KeyOf(f)  == Extracted[f].acct
DateOf(f) == Extracted[f].date

\* the statement files of the folder (the .csv/.pdf files the listing keeps)
Candidates == Range(StatementFiles(folder))

Selected == Range(files_to_load)

\* C2: _most_recent_files returns exactly one file per inferred account key
\* of the folder's statement files, no file twice and no other file, and the
\* date of the returned file is lexicographically >= the date of every
\* statement file with the same key; of STMT_2025-06-30_111.PDF and
\* STMT_2025-09-30_111.PDF the June file is never returned.
C2_OneLatestFilePerAccount ==
    sel_pc = "selected" =>
        /\ Selected \subseteq Candidates
        /\ Cardinality(Selected) = Len(files_to_load)
        /\ \A f \in Candidates :
               Cardinality({g \in Selected : KeyOf(g) = KeyOf(f)}) = 1
        /\ \A g \in Selected : \A f \in Candidates :
               KeyOf(f) = KeyOf(g) => ~StrLt(DateOf(g), DateOf(f))
        /\ ({F_STMT_JUN_111, F_STMT_SEP_111} \subseteq Candidates
               => F_STMT_JUN_111 \notin Selected)

\* the June and the September statement of account 111 alone: September is returned
C2_Witness ==
    /\ sel_pc = "selected"
    /\ Range(folder) = {F_STMT_JUN_111, F_STMT_SEP_111}
    /\ files_to_load = <<F_STMT_SEP_111>>

\* the variant suffix as written in the file name: "-<n>", or nothing
SuffixOf(f) ==
    IF VariantPos(f) # {} THEN <<"-">> \o VariantOf(f) ELSE <<>>

\* no other statement file of the folder has the account key of f or of g
NoThirdFile(f, g) ==
    \A h \in Candidates \ {f, g} : KeyOf(h) # KeyOf(f) /\ KeyOf(h) # KeyOf(g)

\* C3: two compact-date file names of one folder whose variant suffixes
\* differ get distinct account keys, and both are returned by the selector
\* (no third file of the folder having one of their keys), whether their
\* dates are equal or not.
C3_DistinctVariantsBothKept ==
    sel_pc = "selected" =>
        \A f \in Candidates : \A g \in Candidates :
            ( /\ f # g
              /\ Convention(f) = "compact" /\ Convention(g) = "compact"
              /\ SuffixOf(f) # SuffixOf(g) )
            => /\ KeyOf(f) # KeyOf(g)
               /\ (NoThirdFile(f, g) => {f, g} \subseteq Selected)

\* C17: every compact-date statement file is its own account: no two
\* distinct compact-date files of a folder share an account key, and every
\* compact-date file of the folder is returned by the selector, the files
\* that share one compact date included.
C17_CompactFilesAllKept ==
    sel_pc = "selected" =>
        \A f \in Candidates :
            Convention(f) = "compact" =>
                /\ f \in Selected
                /\ \A g \in Candidates \ {f} :
                       Convention(g) = "compact" => KeyOf(g) # KeyOf(f)

\* C4: a statement file matching none of the three conventions gets the
\* sentinel date and its own name as account key, no other statement file
\* of the folder has that key, and the file is in the selector's result.
C4_FallbackFileKept ==
    sel_pc = "selected" =>
        \A f \in Candidates :
            Convention(f) = "fallback" =>
                /\ Extracted[f] = [date |-> SentinelDate, acct |-> f]
                /\ \A g \in Candidates \ {f} : KeyOf(g) # KeyOf(f)
                /\ f \in Selected

\* two unrecognised files beside a dated one: both are returned
C4_Witness ==
    /\ sel_pc = "selected"
    /\ Range(folder) = {F_NOTES, F_CSV, F_STMT_SEP_111}
    /\ {F_NOTES, F_CSV} \subseteq Selected


\* the orders in which the directory can list the files of the folder
ListingOrders(listing) ==
    {p \in [1..Len(listing) -> Range(listing)] : Range(p) = Range(listing)}

\* C28: the selector's result does not depend on the order in which the
\* directory listing returns the files: for any set of filenames, any two
\* listing orders give the same set of selected files, also when several
\* files share both the account key and the derived date.
C28_ListingOrderIrrelevant ==
    sel_pc = "selected" =>
        \A p \in ListingOrders(folder) :
            Range(_most_recent_files(p)) = Range(files_to_load)

-----------------------------------------------------------------------------
(* Properties of the Schwab document scan.                                 *)

\* the text of the lines read so far
ReadTexts == [i \in 1..Len(sch_read) |-> Strip(sch_read[i])]

\* the line is a positions banner: it holds one of the three section-header phrases
IsPositionsBanner(line) ==
    Contains(line, S_POS_EQ) \/ Contains(line, S_POS_ETF) \/ Contains(line, S_POS_FI)

\* the line closes the positions: it holds "Positions - Options" or
\* "Transactions" and is no positions banner (the rules are tried in order)
IsClosingBanner(line) ==
    /\ ~IsPositionsBanner(line)
    /\ (Contains(line, S_POS_OPT) \/ Contains(line, S_TXN))

\* the asset type a positions banner stands for
BannerType(line) ==
    IF Contains(line, S_POS_EQ) THEN "Stock"
    ELSE IF Contains(line, S_POS_ETF) THEN "ETF"
    ELSE "Bond"

Max(S) == CHOOSE x \in S : \A y \in S : y <= x

\* numbers of the lines read so far that are positions banners, closing banners
PositionsBannersRead == {i \in 1..Len(sch_read) : IsPositionsBanner(ReadTexts[i])}
ClosingBannersRead   == {i \in 1..Len(sch_read) : IsClosingBanner(ReadTexts[i])}

\* a positions banner has been read and no closing banner after it
PositionsOpen ==
    /\ PositionsBannersRead # {}
    /\ \A c \in ClosingBannersRead : c < Max(PositionsBannersRead)

\* this step scans one more line
ReadsLine == Len(sch_read') = Len(sch_read) + 1

\* C1: every Holding a parser returns has market_value > 0, the synthetic
\* Cash record being the only one that may not (here: the Holdings of the
\* Schwab document scan).
C1_EveryHoldingHasPositiveValue ==
    \A i \in 1..Len(holdings) :
        holdings[i].market_value > 0 \/ holdings[i].type = "Cash"

\* C7: in_positions is false at the start and after a closing banner until
\* the next positions banner (true exactly when a positions banner was read
\* and no closing banner since), and a line read while in_positions is
\* false emits no Holding.
C7_NoHoldingOutsidePositions ==
    /\ [](sch_pc = "scanning" => (in_positions <=> PositionsOpen))
    /\ [][(ReadsLine /\ ~in_positions) => holdings' = holdings]_vars

\* a valid inline row read after "Transactions" closed the equities section: nothing emitted
C7_Witness ==
    /\ Len(sch_read) = 3
    /\ ReadTexts = <<L_EQ, L_TXN, L_ROW>>
    /\ ~in_positions
    /\ holdings = <<>>

\* C8: a line emits at most one position Holding, its type is the asset
\* type of the most recent positions banner read before the line, on
\* whichever page that banner was; a banner line emits none; entering a
\* page changes neither the section state nor the holdings.
C8_TypeOfMostRecentBanner ==
    [][ /\ ReadsLine =>
            /\ \/ holdings' = holdings
               \/ /\ Len(holdings') = Len(holdings) + 1
                  /\ SubSeq(holdings', 1, Len(holdings)) = holdings
                  /\ PositionsBannersRead # {}
                  /\ holdings'[Len(holdings')].type =
                         BannerType(ReadTexts[Max(PositionsBannersRead)])
            /\ LET line == Strip(sch_read'[Len(sch_read')])
               IN  (IsPositionsBanner(line) \/ IsClosingBanner(line))
                       => holdings' = holdings
        /\ sch_page' # sch_page =>
               UNCHANGED <<in_positions, current_type, cash_val, holdings>>
      ]_vars

\* an equities banner, an ETF banner and an inline row in a document of two
\* pages: the row is an ETF
C8_Witness ==
    /\ sch_read = <<L_EQ, L_ETF, L_ROW>>
    /\ sch_page = 2
    /\ Len(holdings) = 1
    /\ holdings[1].type = "ETF"

\* the Holdings with symbol CASH
CashRecords == {i \in 1..Len(holdings) : holdings[i].symbol = SYM_CASH}

\* C9: the returned list holds exactly one Holding with symbol CASH, as its
\* last record, when the cash accumulator is positive at the end of the
\* line stream, and none otherwise; a cash-sweep line emits no Holding.
C9_AtMostOneCashRecord ==
    /\ [](sch_pc = "done" =>
             IF cash_val > 0 THEN CashRecords = {Len(holdings)} ELSE CashRecords = {})
    /\ [][(ReadsLine /\ cash_val' # cash_val) => holdings' = holdings]_vars

\* the amount a line adds to the sweep balance: the amount captured by the
\* cash-sweep pattern on a line that reaches it
SweepAmount(line) ==
    IF /\ ~IsPositionsBanner(line) /\ ~IsClosingBanner(line)
       /\ ~StartsWith(line, S_TOTAL) /\ ~StartsWith(line, S_ESTIMATED)
       /\ SchwabCashSearch(line).matched
    THEN CleanNum(SchwabCashSearch(line).amount)
    ELSE 0

RECURSIVE SumOver(_)
SumOver(amounts) ==
    IF amounts = <<>> THEN 0 ELSE amounts[1] + SumOver(Tail(amounts))

\* C10: the market_value of the synthetic Cash Holding is the sum of the
\* amounts captured from all cash-sweep lines of the document.
C10_CashIsSumOfSweeps ==
    sch_pc = "done" =>
        \A i \in 1..Len(holdings) :
            holdings[i].type = "Cash" =>
                holdings[i].market_value =
                    SumOver([j \in 1..Len(ReadTexts) |-> SweepAmount(ReadTexts[j])])

\* the text starts with "Total" or with "Estimated"
StartsTotalOrEstimated(text) ==
    \/ StartsWith(text, <<"T","o","t","a","l">>)
    \/ StartsWith(text, <<"E","s","t","i","m","a","t","e","d">>)

\* the line this step scans, as the page gives it
LineScanned == sch_read'[Len(sch_read')]

\* C21: in the Schwab scan a line starting with "Total" or "Estimated"
\* never produces a Holding and never changes the cash accumulator, in
\* whichever section it appears and even when the rest of the line has the
\* shape of a valid position row or cash-sweep row.
C21_SummaryRowsDiscarded ==
    [][(ReadsLine /\ StartsTotalOrEstimated(Strip(LineScanned)))
           => (holdings' = holdings /\ cash_val' = cash_val)]_vars

\* in the fixed-income section, an "Estimated ..." line with the shape of a
\* bond row and a "Total BankSweep ..." line with the shape of a sweep row
\* have been read: no Holding, no cash
C21_Witness ==
    /\ sch_read = <<L_FI, L_EST_BOND, L_TOTAL_SWEEP>>
    /\ in_positions /\ current_type = "Bond"
    /\ holdings = <<>>
    /\ cash_val = 0

\* C25: the inline matcher is tried before the fixed-income matcher on
\* every line: a Holding with symbol BOND is emitted only from a line read
\* while in_positions is true and current_type is Bond and that the inline
\* matcher did not match, it always has type Bond, and a line never emits
\* both an inline Holding and a BOND Holding.
C25_BondOnlyFromFixedIncomeRow ==
    [][ReadsLine =>
           /\ Len(holdings') <= Len(holdings) + 1
           /\ \A i \in (Len(holdings) + 1)..Len(holdings') :
                  holdings'[i].symbol = SYM_BOND =>
                      /\ in_positions /\ current_type = "Bond"
                      /\ ~SchwabRowMatch(Strip(LineScanned)).matched
                      /\ holdings'[i].type = "Bond"]_vars

-----------------------------------------------------------------------------
(* Properties of the scan of the broker folders *)

\* what load_file returns for the selected file fname of a broker; nothing
\* when it raises
OutcomeOf(broker, fname) ==
    load_file(fname, broker, BodyOf(dirs[broker], fname), PDF_SUPPORT)

\* the Holdings of the first n selected files of a broker, in file order
RECURSIVE LoadedUpTo(_, _, _)
LoadedUpTo(broker, files, n) ==
    IF n = 0 THEN <<>>
    ELSE LoadedUpTo(broker, files, n - 1) \o OutcomeOf(broker, files[n]).result

\* the selected files among the first n of a broker for which load_file raises
RECURSIVE RaisedUpTo(_, _, _)
RaisedUpTo(broker, files, n) ==
    IF n = 0 THEN <<>>
    ELSE RaisedUpTo(broker, files, n - 1)
         \o (IF OutcomeOf(broker, files[n]).raised THEN <<files[n]>> ELSE <<>>)

SelectedOf(broker) == _most_recent_files(NamesOf(dirs[broker]))

\* the Holdings of all selected files of the first k brokers, in folder order
RECURSIVE LoadedOfBrokers(_)
LoadedOfBrokers(k) ==
    IF k = 0 THEN <<>>
    ELSE LoadedOfBrokers(k - 1)
         \o LoadedUpTo(BROKERS[k], SelectedOf(BROKERS[k]), Len(SelectedOf(BROKERS[k])))

RECURSIVE RaisedOfBrokers(_)
RaisedOfBrokers(k) ==
    IF k = 0 THEN <<>>
    ELSE RaisedOfBrokers(k - 1)
         \o RaisedUpTo(BROKERS[k], SelectedOf(BROKERS[k]), Len(SelectedOf(BROKERS[k])))

\* the scan has gone through all folders and is about to return
ScanComplete == scan_pc = "folder" /\ scan_broker > Len(BROKERS)

\* C6: an exception of load_file for one file is caught for that file alone:
\* at every point of the scan the result holds the Holdings of every
\* selected file gone through so far for which load_file did not raise,
\* complete, in folder and file order, and the error was reported for
\* exactly the files for which it raised; so the returned list holds every
\* other selected file of every broker.
C6_FailedFileIsSkippedAlone ==
    [](/\ scan_pc = "folder" =>
            /\ scan_holdings = LoadedOfBrokers(scan_broker - 1)
            /\ scan_errors = RaisedOfBrokers(scan_broker - 1)
       /\ scan_pc = "files" =>
            /\ scan_files = SelectedOf(BROKERS[scan_broker])
            /\ scan_holdings = LoadedOfBrokers(scan_broker - 1)
                   \o LoadedUpTo(BROKERS[scan_broker], scan_files, scan_idx - 1)
            /\ scan_errors = RaisedOfBrokers(scan_broker - 1)
                   \o RaisedUpTo(BROKERS[scan_broker], scan_files, scan_idx - 1))
    /\ [][ScanComplete /\ scan_pc' = "idle" =>
            last_run'.holdings = IF LoadedOfBrokers(Len(BROKERS)) # <<>>
                                 THEN LoadedOfBrokers(Len(BROKERS))
                                 ELSE SAMPLE_HOLDINGS]_vars

\* a scan is complete in which load_file raised for a file of the first
\* folder, and a later file of that folder and a file of a later folder
\* were loaded
C6_Witness ==
    /\ ScanComplete
    /\ Len(SelectedOf("Fidelity")) = 2
    /\ scan_errors = <<SelectedOf("Fidelity")[1]>>
    /\ OutcomeOf("Fidelity", SelectedOf("Fidelity")[2]).result # <<>>
    /\ Len(SelectedOf("Schwab")) = 1
    /\ Len(scan_holdings) = Len(OutcomeOf("Fidelity", SelectedOf("Fidelity")[2]).result)
                            + Len(OutcomeOf("Schwab", SelectedOf("Schwab")[1]).result)
    /\ Len(OutcomeOf("Schwab", SelectedOf("Schwab")[1]).result) > 0

\* C5: two calls of index() over unchanged folders produce the same Holdings
\* list, the same records in the same order, and the same summary; the
\* derived fields of the first call are not in the records of the second,
\* and the fallback list is as it was defined.
C5_RescanGivesTheSameHoldings ==
    /\ runs = 2 => prev_run = last_run
    /\ runs >= 1 => \A i \in 1..Len(last_run.holdings) :
                       DOMAIN last_run.holdings[i] = DOMAIN SAMPLE[1]
    /\ SAMPLE_HOLDINGS = SAMPLE

\* the folders were scanned twice without a change between, with several
\* files loaded
C5_Witness ==
    /\ runs = 2
    /\ scan_pc = "idle"
    /\ TotalFiles >= 2
    /\ Len(last_run.holdings) >= 2
    /\ last_run.holdings # SAMPLE
    /\ last_run.summary # last_run.holdings

-----------------------------------------------------------------------------
(* Properties of the Fidelity document scan *)

\* the line holds a parenthesized symbol that is no denylisted abbreviation,
\* and no numeric field; it is no header or footer line
SymbolOnlyLines ==
    {l \in FidLines : /\ FidSymM[l].ok
                      /\ FidSymM[l].symbol \notin _NON_TICKER
                      /\ CountNums(FidStripped[l], 1) = 0
                      /\ ~IsSkipLine(FidStripped[l])}

SymbolOnlyLine(l) == l \in SymbolOnlyLines

\* the line holds the four numeric fields, with a positive market value, and
\* no parenthesized symbol
NumbersOnlyLines ==
    {l \in FidLines : /\ FidNumsM[l].ok
                      /\ CleanNum(FidNumsM[l].mv) > 0
                      /\ ~FidSymM[l].ok}

NumbersOnlyLine(l) == l \in NumbersOnlyLines

\* per numbers line: the values of its first and third field
FirstField == [l \in FidLines |-> CleanNum(FidNumsM[l].qty)]
ThirdField == [l \in FidLines |-> CleanNum(FidNumsM[l].mv)]

\* h is the Holding of the symbol of line sym with the numbers of line nums
PairsUp(h, sym, nums) ==
    /\ h.symbol = FidSymM[sym].symbol
    /\ h.quantity = FirstField[nums]
    /\ h.market_value = ThirdField[nums]

\* C11 as stated: a symbol line followed by the line with the four numeric
\* fields gives exactly one Holding, with that symbol, the first field as
\* quantity and the third as market value.
C11_SymbolLineThenNumbers ==
    (/\ fid_pc = "done"
     /\ Len(fid_lines) = 2
     /\ SymbolOnlyLine(fid_lines[1])
     /\ NumbersOnlyLine(fid_lines[2]))
    => /\ Len(fid_holdings) = 1
       /\ PairsUp(fid_holdings[1], fid_lines[1], fid_lines[2])

\* C11, amended: the numbers are looked for above the symbol line.  When the
\* line with the four numeric fields (positive market value) is directly
\* followed by the symbol line, reading the symbol line emits exactly one
\* Holding, with that symbol, the first field as quantity and the third as
\* market value; reading a line with numeric fields only emits nothing, so
\* a numbers line that follows the symbol line gives no Holding.
C11_NumbersThenSymbolLine ==
    [][(fid_pc = "scanning" /\ fid_i' = fid_i + 1) =>
          /\ (/\ fid_i >= 2
              /\ SymbolOnlyLine(fid_lines[fid_i])
              /\ NumbersOnlyLine(fid_lines[fid_i - 1]))
             => /\ Len(fid_holdings') = Len(fid_holdings) + 1
                /\ SubSeq(fid_holdings', 1, Len(fid_holdings)) = fid_holdings
                /\ PairsUp(fid_holdings'[Len(fid_holdings')],
                           fid_lines[fid_i], fid_lines[fid_i - 1])
          /\ NumbersOnlyLine(fid_lines[fid_i]) => fid_holdings' = fid_holdings]_vars

\* the numbers line of the example followed by its symbol line has been
\* scanned: one Holding, VTSAX, 120.0 shares worth 10238.40
C11_Witness ==
    /\ fid_pc = "done"
    /\ fid_lines = <<FL_NUMS, FL_SYM>>
    /\ Len(fid_holdings) = 1
    /\ fid_holdings[1].symbol = <<"V","T","S","A","X">>
    /\ fid_holdings[1].quantity = 1200000
    /\ fid_holdings[1].market_value = 102384000


\* the first token of a line
FirstToken(line) == IF Tokens(line) = <<>> THEN <<>> ELSE Tokens(line)[1]

\* the lines of the Schwab vocabulary whose first token is a denylisted abbreviation
DeniedSchwabLines == {l \in SchwabLines : FirstToken(Strip(l)) \in _NON_TICKER}

\* C12: in the Schwab scan, reading a line whose first token is a denylisted
\* abbreviation appends no Holding, in a positions section too; and no
\* Holding of the Schwab scan or of the Fidelity scan (inline and
\* deferred-symbol matcher) has a symbol of the denylist.
C12_NoDenylistedSymbol ==
    /\ [][(ReadsLine /\ sch_read'[Len(sch_read')] \in DeniedSchwabLines)
             => holdings' = holdings]_vars
    /\ [](\A i \in 1..Len(holdings) : holdings[i].symbol \notin _NON_TICKER)
    /\ [](\A i \in 1..Len(fid_holdings) : fid_holdings[i].symbol \notin _NON_TICKER)

\* a row that starts with SIPC has been read in the equities section, after
\* a row that gave a Holding
C12_Witness ==
    /\ sch_read = <<L_EQ, L_ROW, L_ROW_SIPC>>
    /\ in_positions
    /\ Len(holdings) = 1

\* a Fidelity statement with a denylisted symbol inline and one on a line of
\* its own below a numbers line has been scanned
C12_WitnessFidelity ==
    /\ fid_pc = "done"
    /\ fid_lines = <<FL_INLINE_ETF, FL_NUMS, FL_SYM_IRA>>
    /\ fid_holdings = <<>>

\* this step scans line fid_i of the statement
FidReadsLine == fid_pc = "scanning" /\ fid_i' = fid_i + 1

\* the Holdings this step appends
FidEmitted == SubSeq(fid_holdings', Len(fid_holdings) + 1, Len(fid_holdings'))

\* per line with a parenthesized symbol: the number of numeric fields that
\* follow the first one
NumsAfterSymbol ==
    [l \in FidLines |-> IF FidSymM[l].ok
                        THEN CountNums(FidStripped[l], FidSymM[l].end + 1) ELSE 0]

\* the inline matcher matches the line and its gates let the record pass
InlinePasses(l) ==
    /\ FidInlineM[l].ok
    /\ FidInlineM[l].symbol \notin _NON_TICKER
    /\ CleanNum(FidInlineM[l].mv) > 0

\* h has the symbol and the numbers the inline matcher captures on line l
IsInlineHoldingOf(h, l) ==
    /\ h.symbol = FidInlineM[l].symbol
    /\ h.quantity = CleanNum(FidInlineM[l].qty)
    /\ h.last_price = CleanNum(FidInlineM[l].price)
    /\ h.market_value = CleanNum(FidInlineM[l].mv)
    /\ h.cost_basis = CleanNum(FidInlineM[l].cb)

\* C22: in the Fidelity scan every line emits at most one Holding: a line
\* matched by the inline matcher is never also handled by the
\* deferred-symbol matcher (even when the inline record is dropped by its
\* gates), and the deferred-symbol matcher emits nothing for a line on which
\* three or more numeric fields follow the parenthesized symbol.
C22_AtMostOneHoldingPerLine ==
    [][FidReadsLine =>
          /\ Len(fid_holdings') <= Len(fid_holdings) + 1
          /\ SubSeq(fid_holdings', 1, Len(fid_holdings)) = fid_holdings
          /\ FidInlineM[fid_lines[fid_i]].ok =>
                 /\ \A k \in DOMAIN FidEmitted :
                        IsInlineHoldingOf(FidEmitted[k], fid_lines[fid_i])
                 /\ ~InlinePasses(fid_lines[fid_i]) => FidEmitted = <<>>
          /\ (/\ ~FidInlineM[fid_lines[fid_i]].ok
              /\ NumsAfterSymbol[fid_lines[fid_i]] >= 3) => FidEmitted = <<>>]_vars

\* below a numbers line, an inline record with market value 0 and a line
\* with three numeric fields after its symbol have been scanned: no Holding
C22_Witness ==
    /\ fid_pc = "done"
    /\ fid_lines = <<FL_NUMS, FL_INLINE_ZERO, FL_SYM_3NUMS>>
    /\ fid_holdings = <<>>

\* the deferred-symbol matcher is reached for the line: it is no header or
\* footer line, the inline matcher does not match it, its first parenthesized
\* symbol is no denylisted abbreviation and fewer than three numeric fields
\* follow that symbol
DeferredCandidate(l) ==
    /\ ~IsSkipLine(FidStripped[l])
    /\ ~FidInlineM[l].ok
    /\ FidSymM[l].ok
    /\ FidSymM[l].symbol \notin _NON_TICKER
    /\ NumsAfterSymbol[l] < 3

\* the lines above line i that hold four consecutive numeric fields and are
\* among the 4 lines immediately preceding it
NumericLinesNear(i) ==
    {j \in 1..(i - 1) : i - j <= 4 /\ FidNumsM[fid_lines[j]].ok}

\* h has the numbers of line j
HasNumbersOf(h, j) ==
    /\ h.quantity = CleanNum(FidNumsM[fid_lines[j]].qty)
    /\ h.last_price = CleanNum(FidNumsM[fid_lines[j]].price)
    /\ h.market_value = CleanNum(FidNumsM[fid_lines[j]].mv)
    /\ h.cost_basis = CleanNum(FidNumsM[fid_lines[j]].cb)

\* C23: the deferred-symbol matcher looks only at the 4 lines immediately
\* preceding the symbol line, nearest first, and stops at the first of them
\* that contains four consecutive numeric fields: a numeric line 5 or more
\* lines above is never used, and if the nearest numeric line has market
\* value <= 0 no Holding is emitted and no farther line is tried.
C23_NearestNumbersWithinFourLines ==
    [][(FidReadsLine /\ ~FidInlineM[fid_lines[fid_i]].ok) =>
          /\ NumericLinesNear(fid_i) = {} => FidEmitted = <<>>
          /\ NumericLinesNear(fid_i) # {} =>
                 /\ ThirdField[fid_lines[Max(NumericLinesNear(fid_i))]] <= 0
                        => FidEmitted = <<>>
                 /\ \A k \in DOMAIN FidEmitted :
                        HasNumbersOf(FidEmitted[k], Max(NumericLinesNear(fid_i)))
                 /\ (/\ DeferredCandidate(fid_lines[fid_i])
                     /\ ThirdField[fid_lines[Max(NumericLinesNear(fid_i))]] > 0)
                        => Len(FidEmitted) = 1]_vars

\* a symbol line has been scanned whose only numbers line is 5 lines above: no Holding
C23_Witness ==
    /\ fid_pc = "done"
    /\ fid_lines = <<FL_NUMS, FL_MUTUAL, FL_MUTUAL, FL_MUTUAL, FL_MUTUAL, FL_SYM_ALONE>>
    /\ fid_holdings = <<>>

\* the numbers line 4 lines above the symbol line is used
C23_WitnessFourAbove ==
    /\ fid_pc = "done"
    /\ fid_lines = <<FL_NUMS, FL_MUTUAL, FL_MUTUAL, FL_MUTUAL, FL_SYM_ALONE>>
    /\ Len(fid_holdings) = 1

\* the nearest numbers line has market value 0, a farther one in the window
\* a positive one: no Holding
C23_WitnessNearestZero ==
    /\ fid_pc = "done"
    /\ fid_lines = <<FL_NUMS, FL_NUMS_ZERO, FL_SYM_ALONE>>
    /\ fid_holdings = <<>>

\* the text preceding the numbers on line j
TextBeforeNumbers(j) ==
    Strip(SubSeq(FidStripped[fid_lines[j]], 1, FidNumsM[fid_lines[j]].start - 1))

\* the description the claim names for the numbers of line j
ClaimedDescription(j) ==
    IF Len(TextBeforeNumbers(j)) < 3 THEN FidStripped[fid_lines[j - 1]]
    ELSE TextBeforeNumbers(j)

\* C24: when the deferred-symbol matcher finds its numeric line, the
\* Holding's description is the text preceding the numbers on that line,
\* and whenever that text is fewer than 3 characters long (the empty text
\* included) the description is instead the line above the numeric line
\* (here: when there is a line above).
C24_DescriptionOrLineAbove ==
    [][(FidReadsLine /\ ~FidInlineM[fid_lines[fid_i]].ok /\ NumericLinesNear(fid_i) # {}) =>
          \A k \in DOMAIN FidEmitted :
              (Max(NumericLinesNear(fid_i)) > 1 \/ Len(TextBeforeNumbers(Max(NumericLinesNear(fid_i)))) >= 3)
                  => FidEmitted[k].description = ClaimedDescription(Max(NumericLinesNear(fid_i)))]_vars

\* the needles of the stock-plan test, looked for in the whole text
IsPlansOnlyText(lines) ==
    /\ InText(lines, <<"S","t","o","c","k"," ","P","l","a","n","s">>)
    /\ ~InText(lines, <<"C","o","m","m","o","n"," ","S","t","o","c","k">>)
    /\ ~InText(lines, <<"M","u","t","u","a","l"," ","F","u","n","d","s">>)
    /\ ~InText(lines, <<"E","x","c","h","a","n","g","e"," ","T","r","a","d","e","d">>)

\* C27: parse_fidelity_pdf returns an empty list, before scanning any line,
\* for a document whose text contains "Stock Plans" and none of "Common
\* Stock", "Mutual Funds", "Exchange Traded": for such a document no Holding
\* is emitted even when some of its lines match the inline or
\* deferred-symbol grammar.
C27_StockPlanStatementsEmpty ==
    (fid_pc # "open" /\ IsPlansOnlyText(fid_lines))
        => (fid_pc = "done" /\ fid_i = 1 /\ fid_holdings = <<>>)

\* a statement with "Stock Plans", an inline record and a symbol line has
\* been returned: no line scanned, no Holding
C27_Witness ==
    /\ fid_pc = "done"
    /\ fid_lines = <<FL_PLANS, FL_INLINE, FL_SYM>>
    /\ fid_i = 1
    /\ fid_holdings = <<>>

\* the number of the line whose numeric fields the Holding of line i is made
\* of, 0 when line i gives no Holding: line i itself for the inline matcher,
\* the nearest numbers line of the window for the deferred-symbol matcher
SourceLine(i) ==
    IF IsSkipLine(FidStripped[fid_lines[i]]) THEN 0
    ELSE IF FidInlineM[fid_lines[i]].ok
    THEN (IF InlinePasses(fid_lines[i]) THEN i ELSE 0)
    ELSE IF /\ DeferredCandidate(fid_lines[i])
            /\ NumericLinesNear(i) # {}
            /\ ThirdField[fid_lines[Max(NumericLinesNear(i))]] > 0
    THEN Max(NumericLinesNear(i))
    ELSE 0

\* the lines scanned so far that gave a Holding
EmittingLines == {i \in 1..(fid_i - 1) : i <= Len(fid_lines) /\ SourceLine(i) # 0}

\* the Holdings are those of the emitting lines, one each
SourcesAccountForHoldings ==
    fid_pc = "scanning" => Len(fid_holdings) = Cardinality(EmittingLines)

\* C29: in the Fidelity scan no numeric-fields line is the source of more
\* than one Holding: a line whose numbers were already emitted by the inline
\* matcher, or already used by one deferred-symbol line, is not used again
\* by a later parenthesized-symbol line that has it inside its 4-line
\* lookback window.
C29_NumbersUsedOnce ==
    fid_pc = "scanning" =>
        \A i1, i2 \in EmittingLines : i1 # i2 => SourceLine(i1) # SourceLine(i2)

-----------------------------------------------------------------------------
(* Properties of _clean                                                    *)

\* val is wrapped in parentheses as a whole
Wrapped(val) == val # NONE /\ Len(val) >= 2 /\ val[1] = "(" /\ val[Len(val)] = ")"

\* C13: _clean of a currency rendering of an amount x (optional $ and %,
\* thousands separators, parentheses around a negative amount) returns x,
\* and _clean of a text wrapped in parentheses returns the negated value of
\* the text inside them.
C13_RenderingComesBack ==
    clean_pc = "returned" =>
        /\ clean_src.rendered => clean_ret = Finite(UnitsOfCents(clean_src.amount))
        /\ Wrapped(clean_val) =>
               clean_ret = Negated(_clean(SubSeq(clean_val, 2, Len(clean_val) - 1)))

\* '(1,234.50)' has given -1234.50
C13_Witness ==
    /\ clean_pc = "returned"
    /\ clean_val = <<"(","1",",","2","3","4",".","5","0",")">>
    /\ clean_src = [rendered |-> TRUE, amount |-> 0 - 123450]
    /\ clean_ret = Finite(0 - 12345000)

\* what is left of val once $ , % and parentheses are stripped
Residual(val) == Strip(RemoveChars(val, {"$", ",", "%", "(", ")"}))

\* t is a number: an optional sign and a decimal literal
IsNumber(t) ==
    IF t # <<>> /\ t[1] = "-" THEN IsDecimal(Tail(t)) ELSE IsDecimal(t)

\* C14: _clean returns for every argument; None, the empty string and every
\* text that is not a number once $ , % and parentheses are stripped give
\* exactly 0.0.
C14_NotANumberGivesZero ==
    clean_pc = "returned" =>
        /\ clean_ret # NO_RETURN
        /\ (clean_val = NONE \/ ~IsNumber(Residual(clean_val))) => clean_ret = Finite(0)

-----------------------------------------------------------------------------
(* Properties of calculate_summary                                         *)

\* the list [{mv: 100, cb: 80}, {mv: 50, cb: 0}]
IsExampleList(hs) ==
    /\ Len(hs) = 2
    /\ hs[1].market_value = 100 * Pow10(FracDigits)
    /\ hs[1].cost_basis = 80 * Pow10(FracDigits)
    /\ hs[2].market_value = 50 * Pow10(FracDigits)
    /\ hs[2].cost_basis = 0

\* total_gain is the total market value minus the total cost basis over
\* all holdings, the ones with a zero cost basis included
GainIsValueMinusCost ==
    summary.total_gain = Round2(SumOver([i \in 1..Len(sum_holdings) |-> sum_holdings[i].market_value])
                                - SumOver([i \in 1..Len(sum_holdings) |-> sum_holdings[i].cost_basis]))

\* C15 as stated: total_gain is total market value minus total cost basis
\* over all holdings, and the list [{mv:100,cb:80},{mv:50,cb:0}] gives
\* total_gain 70 and total_gain_pct 46.67.
C15_ExampleGives46_67 ==
    sum_pc = "returned" =>
        /\ GainIsValueMinusCost
        /\ IsExampleList(sum_holdings) =>
               /\ summary.total_gain = 70 * Pow10(FracDigits)
               /\ summary.total_gain_pct = 466700

\* C15 (amended): total_gain is total market value minus total cost basis
\* over all holdings, zero-cost holdings included, and the list
\* [{mv:100,cb:80},{mv:50,cb:0}] gives total_gain 70 and total_gain_pct
\* 87.5, the gain over the cost basis sum of 80.
C15_ExampleGives87_5 ==
    sum_pc = "returned" =>
        /\ GainIsValueMinusCost
        /\ IsExampleList(sum_holdings) =>
               /\ summary.total_gain = 70 * Pow10(FracDigits)
               /\ summary.total_gain_pct = 875000

\* the summary of the example list has been returned
C15_Witness ==
    /\ sum_pc = "returned"
    /\ IsExampleList(sum_holdings)
    /\ summary.total_value = 150 * Pow10(FracDigits)
    /\ summary.total_cost = 80 * Pow10(FracDigits)
    /\ summary.total_gain = 70 * Pow10(FracDigits)

\* the entries of a breakdown are in descending order of value
Descending(es) == \A i \in 1..(Len(es) - 1) : es[i].value >= es[i + 1].value

\* the holdings of the list whose key is k
HoldingsOf(hs, Field(_), k) == {i \in 1..Len(hs) : Field(hs[i]) = k}

\* every entry of breakdown es is the sum of market_value over the holdings
\* of its key, and every holding is counted in exactly one entry
CountsEachOnce(es, hs, Field(_)) ==
    /\ \A i \in 1..Len(es) :
           /\ HoldingsOf(hs, Field, es[i].key) # {}
           /\ es[i].value =
                  Round2(SumOver([n \in 1..Len(hs) |->
                                     IF Field(hs[n]) = es[i].key
                                     THEN hs[n].market_value ELSE 0]))
    /\ \A n \in 1..Len(hs) :
           Cardinality({i \in 1..Len(es) : es[i].key = Field(hs[n])}) = 1

AccountOf(h) == h.account

TypeOf(h) == h.type

\* C16: in the summary returned, the accounts breakdown and the allocation
\* breakdown list their entries in descending order of value, each entry is
\* the sum of market_value over the holdings of that account (that type),
\* and every holding is counted in exactly one entry of each breakdown.
C16_BreakdownsSortedAndComplete ==
    sum_pc = "returned" =>
        /\ Descending(summary.accounts)
        /\ Descending(summary.allocation)
        /\ CountsEachOnce(summary.accounts, sum_holdings, AccountOf)
        /\ CountsEachOnce(summary.allocation, sum_holdings, TypeOf)

\* a summary whose breakdowns had to be reordered: the list starts with the
\* smaller account and the smaller type, and two holdings share an account
C16_Witness ==
    /\ sum_pc = "returned"
    /\ Len(sum_holdings) = 3
    /\ Len(summary.accounts) = 2
    /\ Len(summary.allocation) = 2
    /\ summary.accounts[1].key # sum_holdings[1].account
    /\ summary.allocation[1].key # sum_holdings[1].type
    /\ summary.accounts[1].value > summary.accounts[2].value
    /\ summary.allocation[1].value > summary.allocation[2].value


\* C26: calculate_summary never divides by zero: a holding whose cost_basis
\* is 0 gets gain_loss_pct 0 with gain_loss equal to its market_value, and
\* total_gain_pct is 0 when the total cost basis is 0 (in particular for an
\* empty holdings list).
C26_NoDivisionByZero ==
    sum_pc = "returned" =>
        /\ \A i \in 1..Len(sum_holdings) :
               /\ sum_holdings[i].gain_loss_pct.den > 0
               /\ sum_holdings[i].cost_basis = 0 =>
                      /\ sum_holdings[i].gain_loss_pct.num = 0
                      /\ sum_holdings[i].gain_loss = sum_holdings[i].market_value
        /\ (\A i \in 1..Len(sum_holdings) : sum_holdings[i].cost_basis = 0)
               => summary.total_gain_pct = 0
        /\ sum_holdings = <<>> => summary.total_gain_pct = 0

\* the summary of a list of two holdings without cost basis has been returned
C26_Witness ==
    /\ sum_pc = "returned"
    /\ Len(sum_holdings) = 2
    /\ \A i \in 1..2 : sum_holdings[i].cost_basis = 0 /\ sum_holdings[i].market_value = 500000
    /\ summary.total_cost = 0
    /\ summary.total_value = 1000000
    /\ summary.total_gain_pct = 0

\* the summary of the empty list has been returned
C26_WitnessEmpty ==
    /\ sum_pc = "returned"
    /\ sum_holdings = <<>>
    /\ summary.total_gain_pct = 0

-----------------------------------------------------------------------------
(* Properties of _extract_date_and_account                                 *)

\* the characters f[i..j] are all digits
DigitsAt(f, i, j) == i >= 1 /\ j <= Len(f) /\ \A k \in i..j : f[k] \in Digits

\* YYYY-MM-DD_<token>. is found at i, the token ending at e
IsoFound(f, i, e) ==
    /\ DigitsAt(f, i, i + 3) /\ DigitsAt(f, i + 5, i + 6) /\ DigitsAt(f, i + 8, i + 9)
    /\ i + 10 <= Len(f) /\ f[i + 4] = "-" /\ f[i + 7] = "-" /\ f[i + 10] = "_"
    /\ e >= i + 11 /\ e < Len(f)
    /\ \A k \in (i + 11)..e : IsWord(f[k])
    /\ f[e + 1] = "."

\* MM_DD_YYYY. is found at i
UsFound(f, i) ==
    /\ DigitsAt(f, i, i + 1) /\ DigitsAt(f, i + 3, i + 4) /\ DigitsAt(f, i + 6, i + 9)
    /\ i + 10 <= Len(f) /\ f[i + 2] = "_" /\ f[i + 5] = "_" /\ f[i + 10] = "."

HasIso(f)     == \E i \in 1..Len(f) : \E e \in 1..Len(f) : IsoFound(f, i, e)
HasUs(f)      == \E i \in 1..Len(f) : UsFound(f, i)
HasCompact(f) == \E i \in 1..Len(f) : DigitsAt(f, i, i + 7)

\* d has the shape YYYY-MM-DD: ten characters, digits around two hyphens
DateShaped(d) ==
    /\ Len(d) = 10
    /\ \A k \in {1, 2, 3, 4, 6, 7, 9, 10} : d[k] \in Digits
    /\ d[5] = "-" /\ d[8] = "-"

\* (date, key) is what convention (a) gives for a match in f
IsIsoPair(f, r) ==
    \E i \in 1..Len(f) : \E e \in 1..Len(f) :
        /\ IsoFound(f, i, e)
        /\ r.date = SubSeq(f, i, i + 9)
        /\ r.acct = SubSeq(f, i + 11, e)

\* (date, key) is what convention (b) gives for a match in f
IsUsPair(f, r) ==
    \E i \in 1..Len(f) :
        /\ UsFound(f, i)
        /\ r.date = SubSeq(f, i + 6, i + 9) \o <<"-">> \o SubSeq(f, i, i + 1)
                    \o <<"-">> \o SubSeq(f, i + 3, i + 4)
        /\ r.acct = <<"m", "s">>

\* (date, key) is what convention (c) gives for an 8-digit run of f
IsCompactPair(f, r) ==
    \E i \in 1..Len(f) :
        /\ DigitsAt(f, i, i + 7)
        /\ r.date = SubSeq(f, i + 4, i + 7) \o <<"-">> \o SubSeq(f, i, i + 1)
                    \o <<"-">> \o SubSeq(f, i + 2, i + 3)
        /\ Len(r.acct) >= 5
        /\ SubSeq(r.acct, 1, 4) = <<"f", "i", "d", "_">>
        /\ \A k \in 5..Len(r.acct) : r.acct[k] \in Digits

\* C20: the conventions are tried in the order (a) YYYY-MM-DD_<token>.,
\* (b) MM_DD_YYYY., (c) any 8-digit run, (d) fallback, and the first one
\* that matches alone decides the pair; (b) gives the key 'ms' and the date
\* reordered to YYYY-MM-DD; every date returned has the shape YYYY-MM-DD.
C20_FirstConventionDecides ==
    ext_pc = "returned" =>
        /\ HasIso(ext_fname) => IsIsoPair(ext_fname, ext_ret)
        /\ (~HasIso(ext_fname) /\ HasUs(ext_fname)) => IsUsPair(ext_fname, ext_ret)
        /\ (~HasIso(ext_fname) /\ ~HasUs(ext_fname) /\ HasCompact(ext_fname))
               => IsCompactPair(ext_fname, ext_ret)
        /\ (~HasIso(ext_fname) /\ ~HasUs(ext_fname) /\ ~HasCompact(ext_fname))
               => ext_ret = [date |-> SentinelDate, acct |-> ext_fname]
        /\ DateShaped(ext_ret.date)

\* 2025-09-30_12_31_2025.pdf matches (a) and (b): (a) has decided
C20_Witness ==
    /\ ext_pc = "returned"
    /\ ext_fname = G_ISO \o G_US \o EXT_PDF
    /\ HasIso(ext_fname) /\ HasUs(ext_fname)
    /\ ext_ret = [date |-> <<"2","0","2","5","-","0","9","-","3","0">>, acct |-> G_US]

\* 12_31_2025.12312025.pdf matches (b) and (c): (b) has decided
C20_WitnessUs ==
    /\ ext_pc = "returned"
    /\ ext_fname = G_US \o G_DOT \o G_COMPACT \o EXT_PDF
    /\ HasUs(ext_fname) /\ HasCompact(ext_fname) /\ ~HasIso(ext_fname)
    /\ ext_ret = [date |-> <<"2","0","2","5","-","1","2","-","3","1">>, acct |-> <<"m", "s">>]

-----------------------------------------------------------------------------
(* Properties of the job scan                                              *)

\* the digests sent that hold job id
DigestsWith(id) == {k \in 1..Len(outbox) : id \in IdsOf(outbox[k])}

\* C18: across the scans run on one dedup store (dry runs aside) a job id
\* is reported as new, and put in a digest, by at most one scan: a scan
\* never has a job in new_jobs whose id the store holds, however often the
\* fetchers return it again.
C18_NewAtMostOnce ==
    /\ \A id \in AllIds : reported[id] <= 1 /\ Cardinality(DigestsWith(id)) <= 1
    /\ job_pc = "checked" => IdsOf(new_jobs) \cap seen_jobs = {}

\* a job that an earlier scan has reported and mailed is fetched again and
\* is not among the new jobs, while another job is
C18_Witness ==
    /\ job_pc = "checked"
    /\ ~dry_run
    /\ \E k \in 1..Len(filtered) :
           /\ filtered[k].id \in seen_jobs
           /\ reported[filtered[k].id] = 1
           /\ DigestsWith(filtered[k].id) # {}
           /\ filtered[k].id \notin IdsOf(new_jobs)
    /\ new_jobs # <<>>

\* C19: a dry-run scan adds no job id to the dedup store and sends no
\* email, the seen ids being the same before and after it, and a job it
\* has reported as new is still reported as new by the next scan that
\* fetches it.
C19_DryRunLeavesStore ==
    [][ /\ (dry_run' \/ dry_run) =>
               /\ seen_jobs' = seen_jobs
               /\ outbox' = outbox
               /\ reported' = reported
        /\ (job_pc = "idle" /\ job_pc' = "checked" /\ job_result.dry_run) =>
               \A k \in 1..Len(filtered') :
                   filtered'[k].id \in IdsOf(job_result.jobs)
                       => filtered'[k].id \in IdsOf(new_jobs') ]_vars

\* the scan after a dry run that found new jobs finds one of them new again
C19_Witness ==
    /\ job_pc = "checked"
    /\ job_result.dry_run
    /\ job_result.jobs # <<>>
    /\ seen_jobs = {}
    /\ IdsOf(job_result.jobs) \cap IdsOf(new_jobs) # {}


\* this step is the return of a scan whose send_digest has failed: there
\* were new jobs and no digest has gone out
DigestFails ==
    /\ job_pc = "marked" /\ job_pc' = "idle"
    /\ new_jobs # <<>>
    /\ outbox' = outbox

\* the ids the store holds from earlier scans and, once send_digest has
\* been attempted, from this one
Committed == IF job_pc = "marked" THEN seen_jobs \ IdsOf(new_jobs) ELSE seen_jobs

\* C30: in a non-dry-run job scan the new jobs are committed to the dedup
\* store before send_digest is attempted: when send_digest fails, the
\* failure is appended to errors and the scan still returns, the jobs stay
\* marked seen, and no later scan includes them in a digest.
C30_CommittedBeforeDigest ==
    /\ [](job_pc = "marked" => IdsOf(new_jobs) \subseteq seen_jobs)
    /\ [][DigestFails =>
             /\ job_result'.errors = Append(job_errors, "Email failed")
             /\ job_result'.new_jobs = Len(new_jobs)
             /\ IdsOf(new_jobs) \subseteq seen_jobs']_vars
    /\ [][seen_jobs \subseteq seen_jobs']_vars
    /\ [][\A id \in Committed :
             \A k \in 1..Len(outbox') : k > Len(outbox) => id \notin IdsOf(outbox'[k])]_vars

\* a job whose digest failed is fetched again by the next scan: it is in the
\* store, in no digest, and not among the new jobs
C30_Witness ==
    /\ job_pc = "checked"
    /\ ~dry_run
    /\ job_result.errors # <<>>
    /\ job_result.errors[Len(job_result.errors)] = "Email failed"
    /\ \E k \in 1..Len(filtered) :
           /\ filtered[k].id \in seen_jobs
           /\ reported[filtered[k].id] = 1
           /\ DigestsWith(filtered[k].id) = {}
           /\ filtered[k].id \notin IdsOf(new_jobs)

=============================================================================
